---- MODULE Spec2Model ----
(***************************************************************************)
(* HLS playlist parsing (package hls): the line-oriented parsers           *)
(* parseMaster and parseMedia, the stream aggregation of parseMaster, and  *)
(* MasterPlaylist.Sort.  Manifest lines are strings; the Go index i is     *)
(* kept 0-based, so lines[i] of the source is lines[i + 1] here.           *)
(***************************************************************************)
EXTENDS Integers, Sequences, FiniteSets, TLC

VARIABLES
    mode,            \* which entry point runs: "master" or "media"
    lines,           \* the argument of parseMaster / parseMedia
    i,               \* the loop index of the parser (0-based, as in Go)
    pc,              \* "loop" while the for loop runs, "done" after return
    masterPlaylist,  \* the MasterPlaylist being built by parseMaster
    streamCounter,   \* parseMaster's entity counter
    streamMap,       \* parseMaster's map from URI line text to its stream
    mediaPlaylist,   \* the MediaPlaylist being built by parseMedia
    ret,             \* what the parser returned: playlist or nil, and the error
    dispatched,      \* history: indices read as `line := lines[i]`
    consumed,        \* history: indices read as the lookahead URI line
    contrib,         \* history: STREAM-INF tags that reached the aggregation
    sorts,           \* number of MasterPlaylist.Sort calls made so far
    resolves,        \* history: the bases of the ResolveURIs calls made so far
    decoded,         \* history: the DecodeData calls made so far and their results
    calls,           \* history: the parse calls that returned before this one
    lookahead        \* history: the indices read as the line after a tag

vars == <<mode, lines, i, pc, masterPlaylist, streamCounter, streamMap,
          mediaPlaylist, ret, dispatched, consumed, contrib, sorts, resolves,
          decoded, calls, lookahead>>

(***************************************************************************)
(* Bounds of the model.                                                    *)
(***************************************************************************)
MaxMasterLines == 4
MaxAggTags == 3
MaxMediaLines == 3
MaxEdgeTags == 2
MaxEdgeLines == 2
MaxSorts == 2

(***************************************************************************)
(* package strings                                                         *)
(***************************************************************************)
CharAt(s, k) == SubSeq(s, k, k)

HasPrefix(s, prefix) ==
    Len(s) >= Len(prefix) /\ SubSeq(s, 1, Len(prefix)) = prefix

TrimPrefix(s, prefix) ==
    IF HasPrefix(s, prefix) THEN SubSeq(s, Len(prefix) + 1, Len(s)) ELSE s

\* Position of the first occurrence of the one-character string c in s at or
\* after position k; 0 when there is none.
RECURSIVE IndexFrom(_, _, _)
IndexFrom(s, c, k) ==
    IF k > Len(s) THEN 0
    ELSE IF CharAt(s, k) = c THEN k
    ELSE IndexFrom(s, c, k + 1)

\* strings.Cut with a one-character separator.
Cut(s, sep) ==
    LET p == IndexFrom(s, sep, 1)
    IN  IF p = 0
        THEN [before |-> s, after |-> "", found |-> FALSE]
        ELSE [before |-> SubSeq(s, 1, p - 1),
              after  |-> SubSeq(s, p + 1, Len(s)),
              found  |-> TRUE]

\* A text of this model is a Go string, byte by byte: one character of a
\* model string is one byte, so that text beyond ASCII is held as its UTF-8
\* bytes.  A byte b below 0x80 is the character of code b; a byte b from
\* 0x80 on is the character of code 0xFF00 + b, the form in which the model
\* checker keeps a character when it writes a state to its queue and reads
\* it back.  The bytes 0x00 and 0x60, which a string literal cannot hold,
\* are written as the characters U+01FF and U+02FF; no input of the
\* specifications below holds them.
Bytes ==
    "\t\n\f\r !\"#$%&'()*+,-./0123456789:;<=>?@ABCDEFGHIJKLMNOPQRSTUVWXYZ[\\]^_˿abcdefghijklmnopqrstuvwxyz{|}~ﾀﾁﾂﾃﾄﾅﾆﾇﾈﾉﾊﾋﾌﾍﾎﾏﾐﾑﾒﾓﾔﾕﾖﾗﾘﾙﾚﾛﾜﾝﾞﾟﾠﾡﾢﾣﾤﾥﾦﾧﾨﾩﾪﾫﾬﾭﾮﾯﾰﾱﾲﾳﾴﾵﾶﾷﾸﾹﾺﾻﾼﾽﾾ﾿￀￁ￂￃￄￅￆￇ￈￉ￊￋￌￍￎￏ￐￑ￒￓￔￕￖￗ￘￙ￚￛￜ￝￞￟￠￡￢￣￤￥￦￧￨￩￪￫￬￭￮￯￰￱￲￳￴￵￶￷￸￹￺￻￼�￾￿"

NUL == "ǿ"

\* The byte of value v, and the value of the byte c.
ByteOf(v) == IF v = 0 THEN NUL ELSE CharAt(Bytes, v)

Code(c) == IF c = NUL THEN 0 ELSE CHOOSE v \in 1..255 : CharAt(Bytes, v) = c

HasSuffix(s, suffix) ==
    /\ Len(s) >= Len(suffix)
    /\ SubSeq(s, Len(s) - Len(suffix) + 1, Len(s)) = suffix

\* The runes of unicode.IsSpace, in UTF-8: '\t', '\n', '\v', '\f', '\r', ' ',
\* U+0085, U+00A0, U+1680, U+2000..U+200A, U+2028, U+2029, U+202F, U+205F
\* and U+3000.
SpaceRunes ==
    {" ", "\t", "\n", "", "\f", "\r", "ￂﾅ", "ￂﾠ", "￡ﾚﾀ", "￢ﾀﾀ", "￢ﾀﾁ",
     "￢ﾀﾂ", "￢ﾀﾃ", "￢ﾀﾄ", "￢ﾀﾅ", "￢ﾀﾆ", "￢ﾀﾇ", "￢ﾀﾈ", "￢ﾀﾉ", "￢ﾀﾊ", "￢ﾀﾨ",
     "￢ﾀﾩ", "￢ﾀﾯ", "￢ﾁﾟ", "￣ﾀﾀ"}

IsSpace(r) == r \in SpaceRunes

RECURSIVE TrimLeftSpace(_)
TrimLeftSpace(s) ==
    IF \E r \in SpaceRunes : HasPrefix(s, r)
    THEN LET r == CHOOSE r \in SpaceRunes : HasPrefix(s, r)
         IN  TrimLeftSpace(SubSeq(s, Len(r) + 1, Len(s)))
    ELSE s

RECURSIVE TrimRightSpace(_)
TrimRightSpace(s) ==
    IF \E r \in SpaceRunes : HasSuffix(s, r)
    THEN LET r == CHOOSE r \in SpaceRunes : HasSuffix(s, r)
         IN  TrimRightSpace(SubSeq(s, 1, Len(s) - Len(r)))
    ELSE s

TrimSpace(s) == TrimRightSpace(TrimLeftSpace(s))

\* The number n as `width` hexadecimal digits taken from `digits`.
RECURSIVE Hex(_, _, _)
Hex(n, width, digits) ==
    IF width = 0 THEN ""
    ELSE Hex(n \div 16, width - 1, digits) \o CharAt(digits, (n % 16) + 1)

\* utf8.DecodeRuneInString at position k: the width of the rune and its code
\* point; width 0 when the bytes there are not a valid encoding.
DecodeRune(s, k) ==
    LET b(j)    == IF k + j <= Len(s) THEN Code(CharAt(s, k + j)) ELSE 0
        cont(j) == b(j) \in 128..191
    IN  IF b(0) < 128 THEN [width |-> 1, rune |-> b(0)]
        ELSE IF b(0) \in 194..223 /\ cont(1)
        THEN [width |-> 2, rune |-> (b(0) - 192) * 64 + (b(1) - 128)]
        ELSE IF /\ b(0) \in 224..239 /\ cont(1) /\ cont(2)
                /\ (b(0) = 224 => b(1) >= 160)
                /\ (b(0) = 237 => b(1) <= 159)
        THEN [width |-> 3,
              rune  |-> (b(0) - 224) * 4096 + (b(1) - 128) * 64 + (b(2) - 128)]
        ELSE IF /\ b(0) \in 240..244 /\ cont(1) /\ cont(2) /\ cont(3)
                /\ (b(0) = 240 => b(1) >= 144)
                /\ (b(0) = 244 => b(1) <= 143)
        THEN [width |-> 4,
              rune  |-> (b(0) - 240) * 262144 + (b(1) - 128) * 4096
                        + (b(2) - 128) * 64 + (b(3) - 128)]
        ELSE [width |-> 0, rune |-> 65533]

(***************************************************************************)
(* package strconv.  A Go int (64 bits) and the digits of a float64 text   *)
(* exceed the integers of the model checker, so a Go int is kept as a sign *)
(* and its decimal digits, [neg, digits], digits without leading zeros.    *)
(***************************************************************************)
Digits == {"0", "1", "2", "3", "4", "5", "6", "7", "8", "9"}

DigitVal(c) ==
    CASE c = "0" -> 0 [] c = "1" -> 1 [] c = "2" -> 2 [] c = "3" -> 3
      [] c = "4" -> 4 [] c = "5" -> 5 [] c = "6" -> 6 [] c = "7" -> 7
      [] c = "8" -> 8 [] c = "9" -> 9

AllDigits(s) == \A k \in 1..Len(s) : CharAt(s, k) \in Digits

RECURSIVE StripZeros(_)
StripZeros(s) ==
    IF Len(s) > 1 /\ CharAt(s, 1) = "0"
    THEN StripZeros(SubSeq(s, 2, Len(s)))
    ELSE s

\* The Go int of a small integer of the model.
GoInt(k) == [neg |-> k < 0, digits |-> ToString(IF k < 0 THEN 0 - k ELSE k)]

\* a < b as numbers, for digit strings read up to position n, a string
\* continued with zeros.
DigitsBelow(a, b, n) ==
    LET DigitAt(s, k) == IF k <= Len(s) THEN DigitVal(CharAt(s, k)) ELSE 0
    IN  \E k \in 1..n :
            /\ DigitAt(a, k) < DigitAt(b, k)
            /\ \A j \in 1..(k - 1) : DigitAt(a, j) = DigitAt(b, j)

\* a < b for digit strings without leading zeros.
DigitsLess(a, b) ==
    IF Len(a) # Len(b) THEN Len(a) < Len(b) ELSE DigitsBelow(a, b, Len(a))

\* x < y on Go ints.
IntLess(x, y) ==
    IF x.neg # y.neg THEN x.neg
    ELSE DigitsLess(IF x.neg THEN y.digits ELSE x.digits,
                    IF x.neg THEN x.digits ELSE y.digits)

MaxUint64 == "18446744073709551615"
MaxInt64 == [neg |-> FALSE, digits |-> "9223372036854775807"]
MinInt64 == [neg |-> TRUE, digits |-> "9223372036854775808"]

\* The number of leading decimal digits of s from position k on.
RECURSIVE DigitRun(_, _)
DigitRun(s, k) ==
    IF k <= Len(s) /\ CharAt(s, k) \in Digits THEN 1 + DigitRun(s, k + 1)
    ELSE 0

\* strconv.Atoi: [n, err, why].  An optional sign and at least one decimal
\* digit give the value; ParseUint reports a range error as soon as the
\* digits read exceed 64 bits, before it looks at the characters after them,
\* and ParseInt one when the value does not fit the int; the value is then the
\* nearest int.  Anything else is a syntax error, with the value 0.
Atoi(s) ==
    LET signed == Len(s) > 0 /\ CharAt(s, 1) \in {"+", "-"}
        neg    == signed /\ CharAt(s, 1) = "-"
        body   == IF signed THEN SubSeq(s, 2, Len(s)) ELSE s
        run    == DigitRun(body, 1)
        mag    == StripZeros(SubSeq(body, 1, run))
        range  == [n |-> IF neg THEN MinInt64 ELSE MaxInt64,
                   err |-> TRUE, why |-> "value out of range"]
    IN  IF run > 0 /\ DigitsLess(MaxUint64, mag) THEN range
        ELSE IF run = 0 \/ run < Len(body)
        THEN [n |-> GoInt(0), err |-> TRUE, why |-> "invalid syntax"]
        ELSE IF ~neg /\ DigitsLess(MaxInt64.digits, mag) THEN range
        ELSE IF neg /\ DigitsLess(MinInt64.digits, mag) THEN range
        ELSE [n |-> [neg |-> neg /\ mag # "0", digits |-> mag],
              err |-> FALSE, why |-> ""]

\* The tables of strconv.IsPrint (isPrint16 and isPrint32 less isNotPrint16
\* and isNotPrint32) for the runes above U+00FF, as the ranges <<first,
\* last>> of printable runes: the letters, marks, numbers, punctuation and
\* symbols of Unicode 15.0.0, the version of the tables since Go 1.21.
PrintRanges ==
    <<<<256, 887>>, <<890, 895>>, <<900, 906>>, <<908, 908>>, <<910, 929>>,
      <<931, 1327>>, <<1329, 1366>>, <<1369, 1418>>, <<1421, 1423>>,
      <<1425, 1479>>, <<1488, 1514>>, <<1519, 1524>>, <<1542, 1563>>,
      <<1565, 1756>>, <<1758, 1805>>, <<1808, 1866>>, <<1869, 1969>>,
      <<1984, 2042>>, <<2045, 2093>>, <<2096, 2110>>, <<2112, 2139>>,
      <<2142, 2142>>, <<2144, 2154>>, <<2160, 2190>>, <<2200, 2273>>,
      <<2275, 2435>>, <<2437, 2444>>, <<2447, 2448>>, <<2451, 2472>>,
      <<2474, 2480>>, <<2482, 2482>>, <<2486, 2489>>, <<2492, 2500>>,
      <<2503, 2504>>, <<2507, 2510>>, <<2519, 2519>>, <<2524, 2525>>,
      <<2527, 2531>>, <<2534, 2558>>, <<2561, 2563>>, <<2565, 2570>>,
      <<2575, 2576>>, <<2579, 2600>>, <<2602, 2608>>, <<2610, 2611>>,
      <<2613, 2614>>, <<2616, 2617>>, <<2620, 2620>>, <<2622, 2626>>,
      <<2631, 2632>>, <<2635, 2637>>, <<2641, 2641>>, <<2649, 2652>>,
      <<2654, 2654>>, <<2662, 2678>>, <<2689, 2691>>, <<2693, 2701>>,
      <<2703, 2705>>, <<2707, 2728>>, <<2730, 2736>>, <<2738, 2739>>,
      <<2741, 2745>>, <<2748, 2757>>, <<2759, 2761>>, <<2763, 2765>>,
      <<2768, 2768>>, <<2784, 2787>>, <<2790, 2801>>, <<2809, 2815>>,
      <<2817, 2819>>, <<2821, 2828>>, <<2831, 2832>>, <<2835, 2856>>,
      <<2858, 2864>>, <<2866, 2867>>, <<2869, 2873>>, <<2876, 2884>>,
      <<2887, 2888>>, <<2891, 2893>>, <<2901, 2903>>, <<2908, 2909>>,
      <<2911, 2915>>, <<2918, 2935>>, <<2946, 2947>>, <<2949, 2954>>,
      <<2958, 2960>>, <<2962, 2965>>, <<2969, 2970>>, <<2972, 2972>>,
      <<2974, 2975>>, <<2979, 2980>>, <<2984, 2986>>, <<2990, 3001>>,
      <<3006, 3010>>, <<3014, 3016>>, <<3018, 3021>>, <<3024, 3024>>,
      <<3031, 3031>>, <<3046, 3066>>, <<3072, 3084>>, <<3086, 3088>>,
      <<3090, 3112>>, <<3114, 3129>>, <<3132, 3140>>, <<3142, 3144>>,
      <<3146, 3149>>, <<3157, 3158>>, <<3160, 3162>>, <<3165, 3165>>,
      <<3168, 3171>>, <<3174, 3183>>, <<3191, 3212>>, <<3214, 3216>>,
      <<3218, 3240>>, <<3242, 3251>>, <<3253, 3257>>, <<3260, 3268>>,
      <<3270, 3272>>, <<3274, 3277>>, <<3285, 3286>>, <<3293, 3294>>,
      <<3296, 3299>>, <<3302, 3311>>, <<3313, 3315>>, <<3328, 3340>>,
      <<3342, 3344>>, <<3346, 3396>>, <<3398, 3400>>, <<3402, 3407>>,
      <<3412, 3427>>, <<3430, 3455>>, <<3457, 3459>>, <<3461, 3478>>,
      <<3482, 3505>>, <<3507, 3515>>, <<3517, 3517>>, <<3520, 3526>>,
      <<3530, 3530>>, <<3535, 3540>>, <<3542, 3542>>, <<3544, 3551>>,
      <<3558, 3567>>, <<3570, 3572>>, <<3585, 3642>>, <<3647, 3675>>,
      <<3713, 3714>>, <<3716, 3716>>, <<3718, 3722>>, <<3724, 3747>>,
      <<3749, 3749>>, <<3751, 3773>>, <<3776, 3780>>, <<3782, 3782>>,
      <<3784, 3790>>, <<3792, 3801>>, <<3804, 3807>>, <<3840, 3911>>,
      <<3913, 3948>>, <<3953, 3991>>, <<3993, 4028>>, <<4030, 4044>>,
      <<4046, 4058>>, <<4096, 4293>>, <<4295, 4295>>, <<4301, 4301>>,
      <<4304, 4680>>, <<4682, 4685>>, <<4688, 4694>>, <<4696, 4696>>,
      <<4698, 4701>>, <<4704, 4744>>, <<4746, 4749>>, <<4752, 4784>>,
      <<4786, 4789>>, <<4792, 4798>>, <<4800, 4800>>, <<4802, 4805>>,
      <<4808, 4822>>, <<4824, 4880>>, <<4882, 4885>>, <<4888, 4954>>,
      <<4957, 4988>>, <<4992, 5017>>, <<5024, 5109>>, <<5112, 5117>>,
      <<5120, 5759>>, <<5761, 5788>>, <<5792, 5880>>, <<5888, 5909>>,
      <<5919, 5942>>, <<5952, 5971>>, <<5984, 5996>>, <<5998, 6000>>,
      <<6002, 6003>>, <<6016, 6109>>, <<6112, 6121>>, <<6128, 6137>>,
      <<6144, 6157>>, <<6159, 6169>>, <<6176, 6264>>, <<6272, 6314>>,
      <<6320, 6389>>, <<6400, 6430>>, <<6432, 6443>>, <<6448, 6459>>,
      <<6464, 6464>>, <<6468, 6509>>, <<6512, 6516>>, <<6528, 6571>>,
      <<6576, 6601>>, <<6608, 6618>>, <<6622, 6683>>, <<6686, 6750>>,
      <<6752, 6780>>, <<6783, 6793>>, <<6800, 6809>>, <<6816, 6829>>,
      <<6832, 6862>>, <<6912, 6988>>, <<6992, 7038>>, <<7040, 7155>>,
      <<7164, 7223>>, <<7227, 7241>>, <<7245, 7304>>, <<7312, 7354>>,
      <<7357, 7367>>, <<7376, 7418>>, <<7424, 7957>>, <<7960, 7965>>,
      <<7968, 8005>>, <<8008, 8013>>, <<8016, 8023>>, <<8025, 8025>>,
      <<8027, 8027>>, <<8029, 8029>>, <<8031, 8061>>, <<8064, 8116>>,
      <<8118, 8132>>, <<8134, 8147>>, <<8150, 8155>>, <<8157, 8175>>,
      <<8178, 8180>>, <<8182, 8190>>, <<8208, 8231>>, <<8240, 8286>>,
      <<8304, 8305>>, <<8308, 8334>>, <<8336, 8348>>, <<8352, 8384>>,
      <<8400, 8432>>, <<8448, 8587>>, <<8592, 9254>>, <<9280, 9290>>,
      <<9312, 11123>>, <<11126, 11157>>, <<11159, 11507>>, <<11513, 11557>>,
      <<11559, 11559>>, <<11565, 11565>>, <<11568, 11623>>, <<11631, 11632>>,
      <<11647, 11670>>, <<11680, 11686>>, <<11688, 11694>>, <<11696, 11702>>,
      <<11704, 11710>>, <<11712, 11718>>, <<11720, 11726>>, <<11728, 11734>>,
      <<11736, 11742>>, <<11744, 11869>>, <<11904, 11929>>, <<11931, 12019>>,
      <<12032, 12245>>, <<12272, 12283>>, <<12289, 12351>>, <<12353, 12438>>,
      <<12441, 12543>>, <<12549, 12591>>, <<12593, 12686>>, <<12688, 12771>>,
      <<12784, 12830>>, <<12832, 42124>>, <<42128, 42182>>, <<42192, 42539>>,
      <<42560, 42743>>, <<42752, 42954>>, <<42960, 42961>>, <<42963, 42963>>,
      <<42965, 42969>>, <<42994, 43052>>, <<43056, 43065>>, <<43072, 43127>>,
      <<43136, 43205>>, <<43214, 43225>>, <<43232, 43347>>, <<43359, 43388>>,
      <<43392, 43469>>, <<43471, 43481>>, <<43486, 43518>>, <<43520, 43574>>,
      <<43584, 43597>>, <<43600, 43609>>, <<43612, 43714>>, <<43739, 43766>>,
      <<43777, 43782>>, <<43785, 43790>>, <<43793, 43798>>, <<43808, 43814>>,
      <<43816, 43822>>, <<43824, 43883>>, <<43888, 44013>>, <<44016, 44025>>,
      <<44032, 55203>>, <<55216, 55238>>, <<55243, 55291>>, <<63744, 64109>>,
      <<64112, 64217>>, <<64256, 64262>>, <<64275, 64279>>, <<64285, 64310>>,
      <<64312, 64316>>, <<64318, 64318>>, <<64320, 64321>>, <<64323, 64324>>,
      <<64326, 64450>>, <<64467, 64911>>, <<64914, 64967>>, <<64975, 64975>>,
      <<65008, 65049>>, <<65056, 65106>>, <<65108, 65126>>, <<65128, 65131>>,
      <<65136, 65140>>, <<65142, 65276>>, <<65281, 65470>>, <<65474, 65479>>,
      <<65482, 65487>>, <<65490, 65495>>, <<65498, 65500>>, <<65504, 65510>>,
      <<65512, 65518>>, <<65532, 65533>>, <<65536, 65547>>, <<65549, 65574>>,
      <<65576, 65594>>, <<65596, 65597>>, <<65599, 65613>>, <<65616, 65629>>,
      <<65664, 65786>>, <<65792, 65794>>, <<65799, 65843>>, <<65847, 65934>>,
      <<65936, 65948>>, <<65952, 65952>>, <<66000, 66045>>, <<66176, 66204>>,
      <<66208, 66256>>, <<66272, 66299>>, <<66304, 66339>>, <<66349, 66378>>,
      <<66384, 66426>>, <<66432, 66461>>, <<66463, 66499>>, <<66504, 66517>>,
      <<66560, 66717>>, <<66720, 66729>>, <<66736, 66771>>, <<66776, 66811>>,
      <<66816, 66855>>, <<66864, 66915>>, <<66927, 66938>>, <<66940, 66954>>,
      <<66956, 66962>>, <<66964, 66965>>, <<66967, 66977>>, <<66979, 66993>>,
      <<66995, 67001>>, <<67003, 67004>>, <<67072, 67382>>, <<67392, 67413>>,
      <<67424, 67431>>, <<67456, 67461>>, <<67463, 67504>>, <<67506, 67514>>,
      <<67584, 67589>>, <<67592, 67592>>, <<67594, 67637>>, <<67639, 67640>>,
      <<67644, 67644>>, <<67647, 67669>>, <<67671, 67742>>, <<67751, 67759>>,
      <<67808, 67826>>, <<67828, 67829>>, <<67835, 67867>>, <<67871, 67897>>,
      <<67903, 67903>>, <<67968, 68023>>, <<68028, 68047>>, <<68050, 68099>>,
      <<68101, 68102>>, <<68108, 68115>>, <<68117, 68119>>, <<68121, 68149>>,
      <<68152, 68154>>, <<68159, 68168>>, <<68176, 68184>>, <<68192, 68255>>,
      <<68288, 68326>>, <<68331, 68342>>, <<68352, 68405>>, <<68409, 68437>>,
      <<68440, 68466>>, <<68472, 68497>>, <<68505, 68508>>, <<68521, 68527>>,
      <<68608, 68680>>, <<68736, 68786>>, <<68800, 68850>>, <<68858, 68903>>,
      <<68912, 68921>>, <<69216, 69246>>, <<69248, 69289>>, <<69291, 69293>>,
      <<69296, 69297>>, <<69373, 69415>>, <<69424, 69465>>, <<69488, 69513>>,
      <<69552, 69579>>, <<69600, 69622>>, <<69632, 69709>>, <<69714, 69749>>,
      <<69759, 69820>>, <<69822, 69826>>, <<69840, 69864>>, <<69872, 69881>>,
      <<69888, 69940>>, <<69942, 69959>>, <<69968, 70006>>, <<70016, 70111>>,
      <<70113, 70132>>, <<70144, 70161>>, <<70163, 70209>>, <<70272, 70278>>,
      <<70280, 70280>>, <<70282, 70285>>, <<70287, 70301>>, <<70303, 70313>>,
      <<70320, 70378>>, <<70384, 70393>>, <<70400, 70403>>, <<70405, 70412>>,
      <<70415, 70416>>, <<70419, 70440>>, <<70442, 70448>>, <<70450, 70451>>,
      <<70453, 70457>>, <<70459, 70468>>, <<70471, 70472>>, <<70475, 70477>>,
      <<70480, 70480>>, <<70487, 70487>>, <<70493, 70499>>, <<70502, 70508>>,
      <<70512, 70516>>, <<70656, 70747>>, <<70749, 70753>>, <<70784, 70855>>,
      <<70864, 70873>>, <<71040, 71093>>, <<71096, 71133>>, <<71168, 71236>>,
      <<71248, 71257>>, <<71264, 71276>>, <<71296, 71353>>, <<71360, 71369>>,
      <<71424, 71450>>, <<71453, 71467>>, <<71472, 71494>>, <<71680, 71739>>,
      <<71840, 71922>>, <<71935, 71942>>, <<71945, 71945>>, <<71948, 71955>>,
      <<71957, 71958>>, <<71960, 71989>>, <<71991, 71992>>, <<71995, 72006>>,
      <<72016, 72025>>, <<72096, 72103>>, <<72106, 72151>>, <<72154, 72164>>,
      <<72192, 72263>>, <<72272, 72354>>, <<72368, 72440>>, <<72448, 72457>>,
      <<72704, 72712>>, <<72714, 72758>>, <<72760, 72773>>, <<72784, 72812>>,
      <<72816, 72847>>, <<72850, 72871>>, <<72873, 72886>>, <<72960, 72966>>,
      <<72968, 72969>>, <<72971, 73014>>, <<73018, 73018>>, <<73020, 73021>>,
      <<73023, 73031>>, <<73040, 73049>>, <<73056, 73061>>, <<73063, 73064>>,
      <<73066, 73102>>, <<73104, 73105>>, <<73107, 73112>>, <<73120, 73129>>,
      <<73440, 73464>>, <<73472, 73488>>, <<73490, 73530>>, <<73534, 73561>>,
      <<73648, 73648>>, <<73664, 73713>>, <<73727, 74649>>, <<74752, 74862>>,
      <<74864, 74868>>, <<74880, 75075>>, <<77712, 77810>>, <<77824, 78895>>,
      <<78912, 78933>>, <<82944, 83526>>, <<92160, 92728>>, <<92736, 92766>>,
      <<92768, 92777>>, <<92782, 92862>>, <<92864, 92873>>, <<92880, 92909>>,
      <<92912, 92917>>, <<92928, 92997>>, <<93008, 93017>>, <<93019, 93025>>,
      <<93027, 93047>>, <<93053, 93071>>, <<93760, 93850>>, <<93952, 94026>>,
      <<94031, 94087>>, <<94095, 94111>>, <<94176, 94180>>, <<94192, 94193>>,
      <<94208, 100343>>, <<100352, 101589>>, <<101632, 101640>>,
      <<110576, 110579>>, <<110581, 110587>>, <<110589, 110590>>,
      <<110592, 110882>>, <<110898, 110898>>, <<110928, 110930>>,
      <<110933, 110933>>, <<110948, 110951>>, <<110960, 111355>>,
      <<113664, 113770>>, <<113776, 113788>>, <<113792, 113800>>,
      <<113808, 113817>>, <<113820, 113823>>, <<118528, 118573>>,
      <<118576, 118598>>, <<118608, 118723>>, <<118784, 119029>>,
      <<119040, 119078>>, <<119081, 119154>>, <<119163, 119274>>,
      <<119296, 119365>>, <<119488, 119507>>, <<119520, 119539>>,
      <<119552, 119638>>, <<119648, 119672>>, <<119808, 119892>>,
      <<119894, 119964>>, <<119966, 119967>>, <<119970, 119970>>,
      <<119973, 119974>>, <<119977, 119980>>, <<119982, 119993>>,
      <<119995, 119995>>, <<119997, 120003>>, <<120005, 120069>>,
      <<120071, 120074>>, <<120077, 120084>>, <<120086, 120092>>,
      <<120094, 120121>>, <<120123, 120126>>, <<120128, 120132>>,
      <<120134, 120134>>, <<120138, 120144>>, <<120146, 120485>>,
      <<120488, 120779>>, <<120782, 121483>>, <<121499, 121503>>,
      <<121505, 121519>>, <<122624, 122654>>, <<122661, 122666>>,
      <<122880, 122886>>, <<122888, 122904>>, <<122907, 122913>>,
      <<122915, 122916>>, <<122918, 122922>>, <<122928, 122989>>,
      <<123023, 123023>>, <<123136, 123180>>, <<123184, 123197>>,
      <<123200, 123209>>, <<123214, 123215>>, <<123536, 123566>>,
      <<123584, 123641>>, <<123647, 123647>>, <<124112, 124153>>,
      <<124896, 124902>>, <<124904, 124907>>, <<124909, 124910>>,
      <<124912, 124926>>, <<124928, 125124>>, <<125127, 125142>>,
      <<125184, 125259>>, <<125264, 125273>>, <<125278, 125279>>,
      <<126065, 126132>>, <<126209, 126269>>, <<126464, 126467>>,
      <<126469, 126495>>, <<126497, 126498>>, <<126500, 126500>>,
      <<126503, 126503>>, <<126505, 126514>>, <<126516, 126519>>,
      <<126521, 126521>>, <<126523, 126523>>, <<126530, 126530>>,
      <<126535, 126535>>, <<126537, 126537>>, <<126539, 126539>>,
      <<126541, 126543>>, <<126545, 126546>>, <<126548, 126548>>,
      <<126551, 126551>>, <<126553, 126553>>, <<126555, 126555>>,
      <<126557, 126557>>, <<126559, 126559>>, <<126561, 126562>>,
      <<126564, 126564>>, <<126567, 126570>>, <<126572, 126578>>,
      <<126580, 126583>>, <<126585, 126588>>, <<126590, 126590>>,
      <<126592, 126601>>, <<126603, 126619>>, <<126625, 126627>>,
      <<126629, 126633>>, <<126635, 126651>>, <<126704, 126705>>,
      <<126976, 127019>>, <<127024, 127123>>, <<127136, 127150>>,
      <<127153, 127167>>, <<127169, 127183>>, <<127185, 127221>>,
      <<127232, 127405>>, <<127462, 127490>>, <<127504, 127547>>,
      <<127552, 127560>>, <<127568, 127569>>, <<127584, 127589>>,
      <<127744, 128727>>, <<128732, 128748>>, <<128752, 128764>>,
      <<128768, 128886>>, <<128891, 128985>>, <<128992, 129003>>,
      <<129008, 129008>>, <<129024, 129035>>, <<129040, 129095>>,
      <<129104, 129113>>, <<129120, 129159>>, <<129168, 129197>>,
      <<129200, 129201>>, <<129280, 129619>>, <<129632, 129645>>,
      <<129648, 129660>>, <<129664, 129672>>, <<129680, 129725>>,
      <<129727, 129733>>, <<129742, 129755>>, <<129760, 129768>>,
      <<129776, 129784>>, <<129792, 129938>>, <<129940, 129994>>,
      <<130032, 130041>>, <<131072, 173791>>, <<173824, 177977>>,
      <<177984, 178205>>, <<178208, 183969>>, <<183984, 191456>>,
      <<194560, 195101>>, <<196608, 201546>>, <<201552, 205743>>,
      <<917760, 917999>>>>

\* strconv.IsPrint: the test of the Latin-1 runes, then the lookup in the
\* tables.
IsPrint(r) ==
    IF r <= 255 THEN r \in 32..126 \/ (r \in 161..255 /\ r # 173)
    ELSE \E k \in DOMAIN PrintRanges :
             PrintRanges[k][1] <= r /\ r <= PrintRanges[k][2]

\* The escape of strconv.Quote for a rune that it does not print as it is.
QuoteEscape(r) ==
    CASE r = 7 -> "\\a" [] r = 8 -> "\\b" [] r = 9 -> "\\t" [] r = 10 -> "\\n"
      [] r = 11 -> "\\v" [] r = 12 -> "\\f" [] r = 13 -> "\\r"
      [] OTHER -> IF r < 32 \/ r = 127 THEN "\\x" \o Hex(r, 2, "0123456789abcdef")
                  ELSE IF r < 65536 THEN "\\u" \o Hex(r, 4, "0123456789abcdef")
                  ELSE "\\U" \o Hex(r, 8, "0123456789abcdef")

RECURSIVE QuoteFrom(_, _)
QuoteFrom(s, k) ==
    IF k > Len(s) THEN ""
    ELSE LET d   == DecodeRune(s, k)
             c   == CharAt(s, k)
             out == IF d.width = 0
                    THEN "\\x" \o Hex(Code(c), 2, "0123456789abcdef")
                    ELSE IF c \in {"\"", "\\"} THEN "\\" \o c
                    ELSE IF IsPrint(d.rune) THEN SubSeq(s, k, k + d.width - 1)
                    ELSE QuoteEscape(d.rune)
         IN  out \o QuoteFrom(s, k + (IF d.width = 0 THEN 1 ELSE d.width))

\* strconv.Quote.
Quote(s) == "\"" \o QuoteFrom(s, 1) \o "\""

LowerChar(c) ==
    CASE c = "I" -> "i" [] c = "N" -> "n" [] c = "F" -> "f" [] c = "T" -> "t"
      [] c = "Y" -> "y" [] c = "A" -> "a" [] OTHER -> c

RECURSIVE ToLower(_)
ToLower(s) ==
    IF Len(s) = 0 THEN ""
    ELSE LowerChar(CharAt(s, 1)) \o ToLower(SubSeq(s, 2, Len(s)))

HexLetters == {"a", "b", "c", "d", "e", "f", "A", "B", "C", "D", "E", "F"}

\* The bits of a text of hexadecimal digits, four for each.
RECURSIVE BitsOf(_)
BitsOf(s) ==
    LET k == IndexFrom("0123456789abcdef", CharAt(s, 1), 1)
        u == IndexFrom("0123456789ABCDEF", CharAt(s, 1), 1)
        HexBits == <<"0000", "0001", "0010", "0011", "0100", "0101", "0110",
                     "0111", "1000", "1001", "1010", "1011", "1100", "1101",
                     "1110", "1111">>[IF k # 0 THEN k ELSE u]
    IN  IF Len(s) = 0 THEN ""
        ELSE HexBits \o BitsOf(SubSeq(s, 2, Len(s)))

\* d * m + c for a non-empty digit string d, by halves: the digits of the
\* product that stand below the length of d, and the carry above them.
RECURSIVE MulAddHalves(_, _, _)
MulAddHalves(d, m, c) ==
    IF Len(d) = 1
    THEN LET t == DigitVal(d) * m + c
         IN  [digits |-> ToString(t % 10), carry |-> t \div 10]
    ELSE LET h  == Len(d) \div 2
             lo == MulAddHalves(SubSeq(d, h + 1, Len(d)), m, c)
             hi == IF lo.carry = 0
                   THEN MulAddHalves(SubSeq(d, 1, h), m, 0)
                   ELSE MulAddHalves(SubSeq(d, 1, h), m, lo.carry)
         IN  [digits |-> hi.digits \o lo.digits, carry |-> hi.carry]

\* The digit string of d * m + c.
MulAdd(d, m, c) ==
    LET r == MulAddHalves(d, m, c)
    IN  IF r.carry = 0 THEN r.digits ELSE ToString(r.carry) \o r.digits

\* The decimal digits of a string of bits.
RECURSIVE BitsToDecimal(_, _, _)
BitsToDecimal(bits, k, acc) ==
    IF k > Len(bits) THEN acc
    ELSE BitsToDecimal(bits, k + 1,
                       StripZeros(MulAdd(acc, 2, DigitVal(CharAt(bits, k)))))

\* d * m^k for a non-empty digit string d.
RECURSIVE TimesPow(_, _, _)
TimesPow(d, m, k) ==
    LET next == MulAdd(d, m, 0)
    IN  IF k = 0 \/ Len(next) = 0 THEN d ELSE TimesPow(next, m, k - 1)

\* d * 2^k and d * 5^k, ten respectively six factors at a time.
TimesPow2(d, k) == TimesPow(TimesPow(d, 1024, k \div 10), 2, k % 10)

TimesPow5(d, k) == TimesPow(TimesPow(d, 15625, k \div 6), 5, k % 6)

\* The real number (-1)^neg * mant * 10^exp with the trailing zeros of mant
\* moved into exp, so that two texts denoting the same number give the same
\* record.
RECURSIVE NormFloat(_, _, _)
NormFloat(neg, mant, exp) ==
    IF mant = "0" THEN [neg |-> neg, mant |-> "0", exp |-> 0, special |-> ""]
    ELSE IF CharAt(mant, Len(mant)) = "0"
    THEN NormFloat(neg, SubSeq(mant, 1, Len(mant) - 1), exp + 1)
    ELSE [neg |-> neg, mant |-> mant, exp |-> exp, special |-> ""]

\* readFloat's mantissa loop: the first position from k on that it does not
\* consume (underscores, one '.', and the digits of the base).
RECURSIVE MantEnd(_, _, _, _)
MantEnd(s, k, hex, sawdot) ==
    IF k > Len(s) THEN k
    ELSE LET c == CharAt(s, k)
         IN  IF c = "_" THEN MantEnd(s, k + 1, hex, sawdot)
             ELSE IF c = "."
             THEN IF sawdot THEN k ELSE MantEnd(s, k + 1, hex, TRUE)
             ELSE IF c \in Digits \/ (hex /\ c \in HexLetters)
             THEN MantEnd(s, k + 1, hex, sawdot)
             ELSE k

\* readFloat's exponent loop: the first position from k on that is neither a
\* digit nor an underscore.
RECURSIVE ExpEnd(_, _)
ExpEnd(s, k) ==
    IF k <= Len(s) /\ CharAt(s, k) \in Digits \cup {"_"} THEN ExpEnd(s, k + 1)
    ELSE k

\* The exponent readFloat accumulates over s[k..n-1]: `if e < 10000`.
RECURSIVE ExpValue(_, _, _, _)
ExpValue(s, k, n, e) ==
    IF k >= n THEN e
    ELSE IF CharAt(s, k) = "_" \/ e >= 10000 THEN ExpValue(s, k + 1, n, e)
    ELSE ExpValue(s, k + 1, n, e * 10 + DigitVal(CharAt(s, k)))

\* The mantissa digits of a text: its characters other than '_' and '.'.
RECURSIVE MantDigits(_)
MantDigits(s) ==
    IF Len(s) = 0 THEN ""
    ELSE (IF CharAt(s, 1) \in {"_", "."} THEN "" ELSE CharAt(s, 1))
         \o MantDigits(SubSeq(s, 2, Len(s)))

\* The loop of strconv.underscoreOK from position k on: saw is "0" after a
\* digit or the base prefix, "_" after an underscore, "!" after anything
\* else, "^" at the beginning.
RECURSIVE underscoreLoop(_, _, _, _)
underscoreLoop(s, k, saw, hex) ==
    IF k > Len(s) THEN saw # "_"
    ELSE LET c == CharAt(s, k)
         IN  IF c \in Digits \/ (hex /\ c \in HexLetters)
             THEN underscoreLoop(s, k + 1, "0", hex)
             ELSE IF c = "_"
             THEN saw = "0" /\ underscoreLoop(s, k + 1, "_", hex)
             ELSE saw # "_" /\ underscoreLoop(s, k + 1, "!", hex)

\* strconv.underscoreOK: underscores only between digits, or between the
\* base prefix and a digit.
underscoreOK(s) ==
    LET signed == Len(s) >= 1 /\ CharAt(s, 1) \in {"+", "-"}
        body   == IF signed THEN SubSeq(s, 2, Len(s)) ELSE s
        prefix == /\ Len(body) >= 2
                  /\ CharAt(body, 1) = "0"
                  /\ CharAt(body, 2) \in {"b", "B", "o", "O", "x", "X"}
    IN  IF prefix
        THEN underscoreLoop(body, 3, "0", CharAt(body, 2) \in {"x", "X"})
        ELSE underscoreLoop(body, 1, "^", FALSE)

\* The smallest magnitude that ParseFloat(s, 64) reports as out of range:
\* 2^1024 - 2^970, the first real number that rounds to infinity.
FloatLimit ==
    "179769313486231580793728971405303415079934132710037826936173778980444968292764750946649017977587207096330286416692887910946555547851940402630657488671505820681908902000708383676273854845817711531764475730270069855571366959622842914819860834936475292719074168444365510704342711559699508093042880177904174497792"

FloatInf(neg) ==
    [neg |-> neg, mant |-> "0", exp |-> 0,
     special |-> IF neg THEN "-Inf" ELSE "+Inf"]

\* A decimal mantissa d (no leading zeros, not zero) times 10^e: out of
\* range, surely rounded to zero (below 10^-324), or the number itself.
DecimalFloat(neg, d, e) ==
    LET top == Len(d) + e
    IN  IF top > Len(FloatLimit)
           \/ (top = Len(FloatLimit)
               /\ ~DigitsBelow(d, FloatLimit, Len(FloatLimit)))
        THEN [range |-> TRUE, val |-> FloatInf(neg)]
        ELSE IF top <= 0 - 324
        THEN [range |-> FALSE, val |-> NormFloat(neg, "0", 0)]
        ELSE [range |-> FALSE, val |-> NormFloat(neg, d, e)]

\* A binary mantissa (bits without leading zeros, not zero) times 2^e: out
\* of range when it reaches 2^1024 - 2^970, that is 54 leading one bits at
\* 2^1023; surely rounded to zero below 2^-1075; else the number itself.
BinaryFloat(neg, bits, e) ==
    LET top == Len(bits) + e
        d   == BitsToDecimal(bits, 1, "0")
    IN  IF top > 1024
           \/ (top = 1024 /\ Len(bits) >= 54
               /\ \A k \in 1..54 : CharAt(bits, k) = "1")
        THEN [range |-> TRUE, val |-> FloatInf(neg)]
        ELSE IF top <= 0 - 1075
        THEN [range |-> FALSE, val |-> NormFloat(neg, "0", 0)]
        ELSE IF e >= 0
        THEN [range |-> FALSE, val |-> NormFloat(neg, TimesPow2(d, e), 0)]
        ELSE [range |-> FALSE, val |-> NormFloat(neg, TimesPow5(d, 0 - e), e)]

\* strconv.ParseFloat(s, 64): [ok, why, val].  The special forms inf,
\* infinity and nan (any case; a sign only before inf); else readFloat:
\* [sign] [0x] digits [. digits] [e|p [sign] digits] with at least one
\* mantissa digit, underscores where underscoreOK allows them, the exponent
\* p required after 0x; the whole text must be consumed.  val is the real
\* number the text denotes, where Go holds the float64 nearest to it: two
\* texts with the same val give the same float64.
ParseFloat(s) ==
    LET signed == Len(s) > 0 /\ CharAt(s, 1) \in {"+", "-"}
        neg    == signed /\ CharAt(s, 1) = "-"
        body   == IF signed THEN SubSeq(s, 2, Len(s)) ELSE s
        hex    == /\ Len(body) > 2
                  /\ CharAt(body, 1) = "0"
                  /\ CharAt(body, 2) \in {"x", "X"}
        from   == IF hex THEN 3 ELSE 1
        syntax == [ok |-> FALSE, why |-> "invalid syntax",
                   val |-> NormFloat(FALSE, "0", 0)]
        \* atof64's answer for the number read.
        answer(num) ==
            IF num.range
            THEN [ok |-> FALSE, why |-> "value out of range", val |-> num.val]
            ELSE [ok |-> TRUE, why |-> "", val |-> num.val]
        \* The number of the mantissa digits (bits when hexadecimal) and
        \* the exponent e.
        number(digits, bits, e) ==
            answer(IF (IF hex THEN bits ELSE digits) = "0"
                   THEN [range |-> FALSE, val |-> NormFloat(neg, "0", 0)]
                   ELSE IF hex THEN BinaryFloat(neg, bits, e)
                   ELSE DecimalFloat(neg, digits, e))
        \* The mantissa text with dot at position dot (0 for none): every
        \* digit after the dot lowers the exponent by one (four when
        \* hexadecimal).
        mantissa(mtext, dot, e) ==
            number(StripZeros(MantDigits(mtext)),
                   StripZeros(BitsOf(MantDigits(mtext))),
                   IF dot = 0 THEN e
                   ELSE e - (IF hex THEN 4 ELSE 1)
                            * Len(MantDigits(SubSeq(mtext, dot + 1, Len(mtext)))))
        \* readFloat with the mantissa ending before mend and the exponent
        \* digits in efrom..eend-1.
        exponent(mtext, mend, hasExp, efrom, eend) ==
            IF /\ Len(MantDigits(mtext)) > 0
               /\ hasExp => (efrom <= Len(body)
                              /\ CharAt(body, efrom) \in Digits)
               /\ hex => hasExp
               /\ (IF hasExp THEN eend ELSE mend) > Len(body)
               /\ underscoreOK(s)
            THEN mantissa(mtext, IndexFrom(mtext, ".", 1),
                          IF ~hasExp THEN 0
                          ELSE IF CharAt(body, mend + 1) = "-"
                          THEN 0 - ExpValue(body, efrom, eend, 0)
                          ELSE ExpValue(body, efrom, eend, 0))
            ELSE syntax
        signedExp(mend, efrom) ==
            exponent(SubSeq(body, from, mend - 1), mend,
                     /\ mend <= Len(body)
                     /\ CharAt(body, mend)
                            \in (IF hex THEN {"p", "P"} ELSE {"e", "E"}),
                     efrom, ExpEnd(body, efrom))
        readFloat(mend) ==
            signedExp(mend,
                      IF mend + 1 <= Len(body)
                         /\ CharAt(body, mend + 1) \in {"+", "-"}
                      THEN mend + 2 ELSE mend + 1)
    IN  IF ToLower(body) \in {"inf", "infinity"}
        THEN [ok |-> TRUE, why |-> "", val |-> FloatInf(neg)]
        ELSE IF ToLower(body) = "nan" /\ ~signed
        THEN [ok |-> TRUE, why |-> "",
              val |-> [neg |-> FALSE, mant |-> "0", exp |-> 0,
                       special |-> "NaN"]]
        ELSE readFloat(MantEnd(body, from, hex, FALSE))

(***************************************************************************)
(* package net/url: url.Parse and URL.ResolveReference, as of Go 1.22.     *)
(* The modes of escaping are "path", "host", "zone", "userPassword" and    *)
(* "fragment".                                                             *)
(***************************************************************************)
Letters == {"a", "b", "c", "d", "e", "f", "g", "h", "i", "j", "k", "l", "m",
            "n", "o", "p", "q", "r", "s", "t", "u", "v", "w", "x", "y", "z",
            "A", "B", "C", "D", "E", "F", "G", "H", "I", "J", "K", "L", "M",
            "N", "O", "P", "Q", "R", "S", "T", "U", "V", "W", "X", "Y", "Z"}

\* strings.ToLower on ASCII, for the scheme.
RECURSIVE LowerASCII(_)
LowerASCII(s) ==
    LET k == IndexFrom("ABCDEFGHIJKLMNOPQRSTUVWXYZ", CharAt(s, 1), 1)
    IN  IF Len(s) = 0 THEN ""
        ELSE (IF k = 0 THEN CharAt(s, 1)
              ELSE CharAt("abcdefghijklmnopqrstuvwxyz", k))
             \o LowerASCII(SubSeq(s, 2, Len(s)))

\* url.getScheme: [scheme, rest, err].
RECURSIVE getScheme(_, _)
getScheme(rawURL, k) ==
    IF k > Len(rawURL) THEN [scheme |-> "", rest |-> rawURL, err |-> FALSE]
    ELSE LET c == CharAt(rawURL, k)
         IN  IF c \in Letters THEN getScheme(rawURL, k + 1)
             ELSE IF c \in Digits \cup {"+", "-", "."}
             THEN IF k = 1
                  THEN [scheme |-> "", rest |-> rawURL, err |-> FALSE]
                  ELSE getScheme(rawURL, k + 1)
             ELSE IF c = ":"
             THEN IF k = 1
                  THEN [scheme |-> "", rest |-> "", err |-> TRUE]
                  ELSE [scheme |-> SubSeq(rawURL, 1, k - 1),
                        rest   |-> SubSeq(rawURL, k + 1, Len(rawURL)),
                        err    |-> FALSE]
             ELSE [scheme |-> "", rest |-> rawURL, err |-> FALSE]

\* url.stringContainsCTLByte: a byte below ' ' or the byte 0x7F.
stringContainsCTLByte(s) ==
    \E k \in 1..Len(s) :
        \/ CharAt(s, k) = NUL
        \/ \E v \in (1..31) \cup {127} : CharAt(s, k) = CharAt(Bytes, v)

unhex(c) ==
    LET k == IndexFrom("0123456789abcdef", c, 1)
        u == IndexFrom("0123456789ABCDEF", c, 1)
    IN  IF k # 0 THEN k - 1 ELSE u - 1

\* url.shouldEscape for the byte c in the given enc.
shouldEscape(c, enc) ==
    IF c \in Letters \cup Digits THEN FALSE
    ELSE IF /\ enc \in {"host", "zone"}
            /\ c \in {"!", "$", "&", "'", "(", ")", "*", "+", ",", ";", "=",
                      ":", "[", "]", "<", ">", "\""}
    THEN FALSE
    ELSE IF c \in {"-", "_", ".", "~"} THEN FALSE
    ELSE IF /\ c \in {"$", "&", "+", ",", "/", ":", ";", "=", "?", "@"}
            /\ enc \in {"path", "userPassword", "fragment"}
    THEN CASE enc = "path" -> c = "?"
           [] enc = "userPassword" -> c \in {"@", "/", "?", ":"}
           [] enc = "fragment" -> FALSE
    ELSE IF enc = "fragment" /\ c \in {"!", "(", ")", "*"} THEN FALSE
    ELSE TRUE

\* The first loop of url.unescape from position k on: an escape that is not
\* '%' and two hexadecimal digits, an escape the enc forbids, or a byte the
\* host forbids.
RECURSIVE unescapeFails(_, _, _)
unescapeFails(s, k, enc) ==
    IF k > Len(s) THEN FALSE
    ELSE IF CharAt(s, k) = "%"
    THEN IF \/ k + 2 > Len(s)
            \/ CharAt(s, k + 1) \notin Digits \cup HexLetters
            \/ CharAt(s, k + 2) \notin Digits \cup HexLetters
         THEN TRUE
         ELSE LET v == unhex(CharAt(s, k + 1)) * 16 + unhex(CharAt(s, k + 2))
              IN  IF /\ enc = "host"
                     /\ unhex(CharAt(s, k + 1)) < 8
                     /\ SubSeq(s, k, k + 2) # "%25"
                  THEN TRUE
                  ELSE IF /\ enc = "zone"
                          /\ SubSeq(s, k, k + 2) # "%25"
                          /\ v # 32
                          /\ shouldEscape(ByteOf(v), "host")
                  THEN TRUE
                  ELSE unescapeFails(s, k + 3, enc)
    ELSE IF /\ enc \in {"host", "zone"}
            /\ Code(CharAt(s, k)) < 128
            /\ shouldEscape(CharAt(s, k), "host")
    THEN TRUE
    ELSE unescapeFails(s, k + 1, enc)

\* The second loop of url.unescape: every escape replaced by its byte.
RECURSIVE unescapeBytes(_, _)
unescapeBytes(s, k) ==
    IF k > Len(s) THEN ""
    ELSE IF CharAt(s, k) = "%"
    THEN ByteOf(unhex(CharAt(s, k + 1)) * 16 + unhex(CharAt(s, k + 2)))
         \o unescapeBytes(s, k + 3)
    ELSE CharAt(s, k) \o unescapeBytes(s, k + 1)

\* url.unescape: [s, err].
unescape(s, enc) ==
    IF unescapeFails(s, 1, enc) THEN [s |-> "", err |-> TRUE]
    ELSE [s |-> unescapeBytes(s, 1), err |-> FALSE]

\* url.escape in a enc other than the query component.
RECURSIVE escape(_, _)
escape(s, enc) ==
    IF Len(s) = 0 THEN ""
    ELSE (IF shouldEscape(CharAt(s, 1), enc)
          THEN "%" \o Hex(Code(CharAt(s, 1)), 2, "0123456789ABCDEF")
          ELSE CharAt(s, 1))
         \o escape(SubSeq(s, 2, Len(s)), enc)

\* url.validEncoded.
validEncoded(s, enc) ==
    \A k \in 1..Len(s) :
        \/ CharAt(s, k) \in {"!", "$", "&", "'", "(", ")", "*", "+", ",", ";",
                             "=", ":", "@", "[", "]", "%"}
        \/ ~shouldEscape(CharAt(s, k), enc)

\* The nil *url.Userinfo and the nil *url.URL.
NilUser ==
    [nil |-> TRUE, username |-> "", password |-> "", passwordSet |-> FALSE]

NilURL ==
    [nil |-> TRUE, Scheme |-> "", Opaque |-> "", User |-> NilUser,
     Host |-> "", Path |-> "", RawPath |-> "", OmitHost |-> FALSE,
     ForceQuery |-> FALSE, RawQuery |-> "", Fragment |-> "",
     RawFragment |-> ""]

\* (*URL).setPath: [url, err].
setPath(u, p) ==
    LET set(path) ==
            IF path.err THEN [url |-> u, err |-> TRUE]
            ELSE [err |-> FALSE,
                  url |-> [u EXCEPT !.Path = path.s,
                                    !.RawPath = IF p = escape(path.s, "path")
                                                THEN "" ELSE p]]
    IN  set(unescape(p, "path"))

\* (*URL).setFragment: [url, err].
setFragment(u, f) ==
    LET set(frag) ==
            IF frag.err THEN [url |-> u, err |-> TRUE]
            ELSE [err |-> FALSE,
                  url |-> [u EXCEPT !.Fragment = frag.s,
                                    !.RawFragment =
                                        IF f = escape(frag.s, "fragment")
                                        THEN "" ELSE f]]
    IN  set(unescape(f, "fragment"))

\* (*URL).EscapedPath.
EscapedPath(u) ==
    IF /\ u.RawPath # ""
       /\ validEncoded(u.RawPath, "path")
       /\ ~unescape(u.RawPath, "path").err
       /\ unescape(u.RawPath, "path").s = u.Path
    THEN u.RawPath
    ELSE IF u.Path = "*" THEN "*"
    ELSE escape(u.Path, "path")

\* strings.LastIndex of a one-character separator: 0 when it does not occur.
LastIndex(s, c) ==
    LET at == {k \in 1..Len(s) : CharAt(s, k) = c}
    IN  IF at = {} THEN 0 ELSE CHOOSE k \in at : \A j \in at : j <= k

\* url.validOptionalPort: empty, or ':' and decimal digits.
validOptionalPort(port) ==
    port = "" \/ (CharAt(port, 1) = ":" /\ AllDigits(SubSeq(port, 2, Len(port))))

\* url.validUserinfo.
validUserinfo(s) ==
    \A k \in 1..Len(s) :
        CharAt(s, k) \in Letters \cup Digits
            \cup {"-", ".", "_", ":", "~", "!", "$", "&", "'", "(", ")", "*",
                  "+", ",", ";", "=", "%", "@"}

\* strings.Index(s, "%25"): the position of the first occurrence, 0 for none.
RECURSIVE IndexZone(_, _)
IndexZone(s, k) ==
    IF k + 2 > Len(s) THEN 0
    ELSE IF SubSeq(s, k, k + 2) = "%25" THEN k
    ELSE IndexZone(s, k + 1)

\* url.parseHost: [host, err].
parseHost(host) ==
    LET close == LastIndex(host, "]")
        colon == LastIndex(host, ":")
        bad   == [host |-> "", err |-> TRUE]
        unescaped(whole) == [host |-> whole.s, err |-> whole.err]
        zoned(host1, host2, host3) ==
            IF host1.err \/ host2.err \/ host3.err THEN bad
            ELSE [host |-> host1.s \o host2.s \o host3.s, err |-> FALSE]
        bracketed(zone) ==
            IF zone # 0
            THEN zoned(unescape(SubSeq(host, 1, zone - 1), "host"),
                       unescape(SubSeq(host, zone, close - 1), "zone"),
                       unescape(SubSeq(host, close, Len(host)), "host"))
            ELSE bad
    IN  IF HasPrefix(host, "[") /\ close = 0 THEN bad
        ELSE IF /\ HasPrefix(host, "[")
                /\ ~validOptionalPort(SubSeq(host, close + 1, Len(host)))
        THEN bad
        ELSE IF /\ HasPrefix(host, "[")
                /\ IndexZone(SubSeq(host, 1, close - 1), 1) # 0
        THEN bracketed(IndexZone(SubSeq(host, 1, close - 1), 1))
        ELSE IF /\ ~HasPrefix(host, "[")
                /\ colon # 0
                /\ ~validOptionalPort(SubSeq(host, colon, Len(host)))
        THEN bad
        ELSE unescaped(unescape(host, "host"))

\* url.parseAuthority: [user, host, err].
parseAuthority(authority) ==
    LET at       == LastIndex(authority, "@")
        userinfo == SubSeq(authority, 1, at - 1)
        bad      == [user |-> NilUser, host |-> "", err |-> TRUE]
        credentials(host, parts, username, password) ==
            IF username.err \/ (parts.found /\ password.err) THEN bad
            ELSE [err  |-> FALSE,
                  host |-> host,
                  user |-> [nil |-> FALSE, username |-> username.s,
                            password |-> IF parts.found THEN password.s
                                         ELSE "",
                            passwordSet |-> parts.found]]
        user(host, parts) ==
            credentials(host, parts, unescape(parts.before, "userPassword"),
                        unescape(parts.after, "userPassword"))
        authority2(host) ==
            IF host.err THEN bad
            ELSE IF at = 0
            THEN [user |-> NilUser, host |-> host.host, err |-> FALSE]
            ELSE IF ~validUserinfo(userinfo) THEN bad
            ELSE user(host.host, Cut(userinfo, ":"))
    IN  authority2(parseHost(SubSeq(authority, at + 1, Len(authority))))

\* The rest of url.parse once the authority is parsed: the user and the host
\* are set, and the text from the next '/' on is the path.
parseWithAuthority(url, pa, path) ==
    IF pa.err \/ setPath(url, path).err THEN [url |-> NilURL, err |-> TRUE]
    ELSE setPath([url EXCEPT !.User = pa.user, !.Host = pa.host], path)

\* The rest of url.parse once the scheme, lower-cased, is split off: qu is
\* the text after it, cut at the first '?'.
parseRest(scheme, qu) ==
    LET rest   == qu.before
        rooted == HasPrefix(qu.before, "/")
        afterA == Cut(SubSeq(qu.before, 3, Len(qu.before)), "/")
        url    == [NilURL EXCEPT !.nil = FALSE,
                                 !.Scheme = scheme,
                                 !.ForceQuery = qu.found /\ qu.after = "",
                                 !.RawQuery = qu.after,
                                 !.OmitHost = /\ scheme # ""
                                              /\ rooted
                                              /\ ~HasPrefix(qu.before, "//")]
    IN  IF ~rooted /\ scheme # ""
        THEN [url |-> [url EXCEPT !.Opaque = rest], err |-> FALSE]
        ELSE IF ~rooted /\ IndexFrom(Cut(rest, "/").before, ":", 1) # 0
        THEN [url |-> NilURL, err |-> TRUE]
        ELSE IF /\ scheme # "" \/ ~HasPrefix(rest, "///")
                /\ HasPrefix(rest, "//")
        THEN parseWithAuthority(url, parseAuthority(afterA.before),
                                IF afterA.found THEN "/" \o afterA.after
                                ELSE "")
        ELSE IF setPath(url, rest).err THEN [url |-> NilURL, err |-> TRUE]
        ELSE setPath(url, rest)

\* url.parse with viaRequest false: [url, err].
parse(rawURL) ==
    IF stringContainsCTLByte(rawURL) THEN [url |-> NilURL, err |-> TRUE]
    ELSE IF rawURL = "*"
    THEN [url |-> [NilURL EXCEPT !.nil = FALSE, !.Path = "*"], err |-> FALSE]
    ELSE LET schemed(gs) ==
                 IF gs.err THEN [url |-> NilURL, err |-> TRUE]
                 ELSE parseRest(LowerASCII(gs.scheme), Cut(gs.rest, "?"))
         IN  schemed(getScheme(rawURL, 1))

\* The fragment frag set on the URL that url.parse returned.
parseFragment(parsed, frag) ==
    IF parsed.err \/ frag = "" THEN parsed
    ELSE IF setFragment(parsed.url, frag).err
    THEN [url |-> NilURL, err |-> TRUE]
    ELSE setFragment(parsed.url, frag)

\* url.Parse: [url, err]; url is NilURL when err is TRUE.
urlParse(rawURL) ==
    parseFragment(parse(Cut(rawURL, "#").before), Cut(rawURL, "#").after)

\* The loop of url.resolvePath over the elements of `remaining`: the text
\* built so far, the `first` flag, and the last element read.
RECURSIVE resolvePathLoop(_, _, _)
resolvePathLoop(remaining, dst, first) ==
    LET cut   == Cut(remaining, "/")
        elem  == cut.before
        str   == SubSeq(dst, 2, Len(dst))
        index == LastIndex(str, "/")
        dst2  == IF elem = "." THEN dst
                 ELSE IF elem = ".."
                 THEN IF index = 0 THEN "/"
                      ELSE "/" \o SubSeq(str, 1, index - 1)
                 ELSE dst \o (IF first THEN "" ELSE "/") \o elem
        first2 == IF elem = "." THEN FALSE
                  ELSE IF elem = ".." THEN (IF index = 0 THEN TRUE ELSE first)
                  ELSE FALSE
    IN  IF cut.found THEN resolvePathLoop(cut.after, dst2, first2)
        ELSE [dst |-> dst2, elem |-> elem]

\* url.resolvePath: the reference path merged with the base path, dot
\* segments removed.
resolvePath(base, ref) ==
    LET full == IF ref = "" THEN base
                ELSE IF CharAt(ref, 1) # "/"
                THEN SubSeq(base, 1, LastIndex(base, "/")) \o ref
                ELSE ref
        trimmed(r) ==
            IF Len(r) > 1 /\ CharAt(r, 2) = "/" THEN SubSeq(r, 2, Len(r))
            ELSE r
        closed(out) ==
            trimmed(IF out.elem \in {".", ".."} THEN out.dst \o "/"
                    ELSE out.dst)
    IN  IF full = "" THEN ""
        ELSE closed(resolvePathLoop(full, "/", TRUE))

\* Mutant of ResolveReference: the test for an absolute reference is
\* missing, so every reference is merged with the base.
ResolveReferenceMerging(u, ref) ==
    setPath([ref EXCEPT !.Scheme = u.Scheme, !.Host = u.Host, !.User = u.User],
            resolvePath(EscapedPath(u), EscapedPath(ref))).url

\* (*URL).ResolveReference: u is the base, ref the reference.
ResolveReference(u, ref) ==
    LET scheme == IF ref.Scheme = "" THEN u.Scheme ELSE ref.Scheme
        empty  == ref.Path = "" /\ ~ref.ForceQuery /\ ref.RawQuery = ""
        url    == [ref EXCEPT
                      !.Scheme      = scheme,
                      !.RawQuery    = IF empty THEN u.RawQuery ELSE @,
                      !.Fragment    = IF empty /\ ref.Fragment = ""
                                      THEN u.Fragment ELSE @,
                      !.RawFragment = IF empty /\ ref.Fragment = ""
                                      THEN u.RawFragment ELSE @]
    IN  IF ref.Scheme # "" \/ ref.Host # "" \/ ~ref.User.nil
        THEN setPath([ref EXCEPT !.Scheme = scheme],
                     resolvePath(EscapedPath(ref), "")).url
        ELSE IF ref.Opaque # ""
        THEN [ref EXCEPT !.Scheme = scheme, !.User = NilUser, !.Host = "",
                         !.Path = ""]
        ELSE IF ref.Path = "" /\ u.Opaque # ""
        THEN [url EXCEPT !.Opaque = u.Opaque, !.User = NilUser, !.Host = "",
                         !.Path = ""]
        ELSE setPath([url EXCEPT !.Host = u.Host, !.User = u.User],
                     resolvePath(EscapedPath(u), EscapedPath(ref))).url

(***************************************************************************)
(* parseAttributes: the attribute-list tokenizer.  Its source is not part  *)
(* of the files at hand; it is modelled from the tokenizer's contract:     *)
(* comma-separated NAME=VALUE pairs, commas inside double quotes belong to *)
(* the value, wrapping quotes are stripped, a pair without '=' is skipped, *)
(* white space before a name is trimmed, and a later pair of the same name *)
(* replaces an earlier one.                                                *)
(***************************************************************************)
RECURSIVE SplitAttrs(_, _, _, _)
SplitAttrs(s, k, start, inQuote) ==
    IF k > Len(s) THEN <<SubSeq(s, start, Len(s))>>
    ELSE IF CharAt(s, k) = "\"" THEN SplitAttrs(s, k + 1, start, ~inQuote)
    ELSE IF CharAt(s, k) = "," /\ ~inQuote
    THEN <<SubSeq(s, start, k - 1)>> \o SplitAttrs(s, k + 1, k + 1, FALSE)
    ELSE SplitAttrs(s, k + 1, start, inQuote)

Unquote(v) ==
    IF Len(v) >= 2 /\ CharAt(v, 1) = "\"" /\ CharAt(v, Len(v)) = "\""
    THEN SubSeq(v, 2, Len(v) - 1)
    ELSE v

RECURSIVE AttrsOf(_, _)
AttrsOf(frags, n) ==
    IF n = 0 THEN <<>>
    ELSE LET kv == Cut(frags[n], "=")
             earlier == AttrsOf(frags, n - 1)
         IN  IF kv.found
             THEN (TrimLeftSpace(kv.before) :> Unquote(kv.after)) @@ earlier
             ELSE earlier

parseAttributes(line, prefix) ==
    LET frags == SplitAttrs(TrimPrefix(line, prefix), 1, 1, FALSE)
    IN  AttrsOf(frags, Len(frags))

\* attrs[name] of a Go map[string]string: "" for a missing key.
Attr(attrs, name) == IF name \in DOMAIN attrs THEN attrs[name] ELSE ""

(***************************************************************************)
(* The data model: zero values of the Go structs.                          *)
(***************************************************************************)
ZeroExtStream ==
    [URI |-> NilURL, ID |-> 0, Bandwidth |-> GoInt(0),
     AverageBandwidth |-> GoInt(0),
     Codecs |-> "", Resolution |-> "", FrameRate |-> "", Subtitles |-> "",
     Audio |-> <<>>]

ZeroMasterPlaylist == [Streams |-> <<>>, Medias |-> <<>>, SessionKeys |-> <<>>]

ZeroMediaPlaylist ==
    [TargetDuration |-> GoInt(0), MediaSequence |-> GoInt(0),
     Version |-> GoInt(0),
     PlaylistType |-> "", Segments |-> <<>>, Keys |-> <<>>, Map |-> NilURL,
     EndList |-> FALSE]

\* The URI attribute of a tag: parsed when present, non-empty and well
\* formed; urlParse gives the nil URL for a text that is not well formed.
AttrURI(attrs) ==
    IF Attr(attrs, "URI") # "" THEN urlParse(Attr(attrs, "URI")).url
    ELSE NilURL

parseKey(line) ==
    LET prefix == IF HasPrefix(line, "#EXT-X-SESSION-KEY:")
                  THEN "#EXT-X-SESSION-KEY:" ELSE "#EXT-X-KEY:"
        attrs  == parseAttributes(line, prefix)
    IN  [Method            |-> Attr(attrs, "METHOD"),
         URI               |-> AttrURI(attrs),
         KeyFormat         |-> Attr(attrs, "KEYFORMAT"),
         KeyFormatVersions |-> Attr(attrs, "KEYFORMATVERSIONS"),
         IV                |-> Attr(attrs, "IV"),
         Characteristics   |-> Attr(attrs, "CHARACTERISTICS")]

parseRendition(line) ==
    LET attrs == parseAttributes(line, "#EXT-X-MEDIA:")
    IN  [Type            |-> Attr(attrs, "TYPE"),
         GroupID         |-> Attr(attrs, "GROUP-ID"),
         Name            |-> Attr(attrs, "NAME"),
         Language        |-> Attr(attrs, "LANGUAGE"),
         URI             |-> AttrURI(attrs),
         AutoSelect      |-> Attr(attrs, "AUTOSELECT") = "YES",
         Default         |-> Attr(attrs, "DEFAULT") = "YES",
         Forced          |-> Attr(attrs, "FORCED") = "YES",
         Channels        |-> Attr(attrs, "CHANNELS"),
         Characteristics |-> Attr(attrs, "CHARACTERISTICS"),
         ID              |-> 0]

populateStreamAttributes(stream, attrs) ==
    [stream EXCEPT
        !.Codecs           = Attr(attrs, "CODECS"),
        !.Resolution       = Attr(attrs, "RESOLUTION"),
        !.FrameRate        = Attr(attrs, "FRAME-RATE"),
        !.Subtitles        = Attr(attrs, "SUBTITLES"),
        !.Bandwidth        = Atoi(Attr(attrs, "BANDWIDTH")).n,
        !.AverageBandwidth = Atoi(Attr(attrs, "AVERAGE-BANDWIDTH")).n]

(***************************************************************************)
(* parseMaster                                                             *)
(***************************************************************************)
\* The branch of parseMaster's if / else-if chain that a line takes.
MasterCase(line) ==
    IF HasPrefix(line, "#EXT-X-MEDIA:") THEN "MEDIA"
    ELSE IF HasPrefix(line, "#EXT-X-SESSION-KEY:") THEN "SESSION-KEY"
    ELSE IF HasPrefix(line, "#EXT-X-STREAM-INF:") THEN "STREAM-INF"
    ELSE "none"

\* The loop of parseMaster is at index i with the line lines[i] to dispatch.
MasterAt(case) ==
    /\ mode = "master"
    /\ pc = "loop"
    /\ i < Len(lines)
    /\ MasterCase(lines[i + 1]) = case

\* Mutant of NextIndex: the line taken as URI is skipped, and one more.
NextIndexOvershoot(idx, took) == IF took THEN idx + 3 ELSE idx + 1

\* The index of the next iteration: the `i++` of the loop header, after the
\* `i++` of the body when the line after the tag was taken as its URI.
NextIndex(idx, took) == IF took THEN idx + 2 ELSE idx + 1

\* Mutant of MissingURI: the tag before the last line is dropped as well.
MissingURIEarly(idx, n) == idx + 2 >= n

\* `i+1 >= len(lines)`: the STREAM-INF tag has no following line.
MissingURI(idx, n) == idx + 1 >= n

\* Mutant of StreamExists: the lookup never finds the stream.
StreamExistsNever(map, uriLine) == FALSE

\* `stream, exists := streamMap[uriLine]`
StreamExists(map, uriLine) == uriLine \in DOMAIN map

\* The stream a first STREAM-INF tag for uriLine creates.
NewStream(counter, uriLine, attrs) ==
    populateStreamAttributes(
        [ZeroExtStream EXCEPT !.ID = counter, !.URI = urlParse(uriLine).url],
        attrs)

\* Mutant of AddAudio: an audio group already listed is not appended again.
AddAudioOnce(stream, attrs) ==
    IF Attr(attrs, "AUDIO") # ""
       /\ \A k \in 1..Len(stream.Audio) : stream.Audio[k] # Attr(attrs, "AUDIO")
    THEN [stream EXCEPT !.Audio = Append(@, Attr(attrs, "AUDIO"))]
    ELSE stream

\* `if audioGroup := attrs["AUDIO"]; audioGroup != ""`
AddAudio(stream, attrs) ==
    IF Attr(attrs, "AUDIO") # ""
    THEN [stream EXCEPT !.Audio = Append(@, Attr(attrs, "AUDIO"))]
    ELSE stream

\* Mutant of LowerBandwidth: every repeat tag overwrites.
LowerBandwidthOrNot(exists, attrs, stream) == exists

\* `bw, _ := strconv.Atoi(attrs["BANDWIDTH"]); exists && bw < stream.Bandwidth`
LowerBandwidth(exists, attrs, stream) ==
    exists /\ IntLess(Atoi(Attr(attrs, "BANDWIDTH")).n, stream.Bandwidth)

\* Mutant of CounterAfterStream: the counter advances on every tag.
CounterAfterEveryTag(counter, exists) == counter + 1

\* The counter after a STREAM-INF tag was aggregated.
CounterAfterStream(counter, exists) == IF exists THEN counter ELSE counter + 1

\* Mutant of AppendKey: a key equal to one already in the list is not added.
AppendKeyOnce(keys, key) ==
    IF \E k \in 1..Len(keys) : keys[k] = key THEN keys ELSE Append(keys, key)

\* `append(masterPlaylist.SessionKeys, parseKey(line))`, and the same for
\* mediaPlaylist.Keys.
AppendKey(keys, key) == Append(keys, key)

MasterMedia ==
    /\ MasterAt("MEDIA")
    /\ masterPlaylist' =
           [masterPlaylist EXCEPT !.Medias =
               Append(@, [parseRendition(lines[i + 1]) EXCEPT !.ID = streamCounter])]
    /\ streamCounter' = streamCounter + 1
    /\ dispatched' = Append(dispatched, i)
    /\ i' = i + 1
    /\ UNCHANGED <<mode, calls, lookahead, decoded, resolves, lines, pc, streamMap, mediaPlaylist, ret, consumed,
                   contrib, sorts>>

MasterSessionKey ==
    /\ MasterAt("SESSION-KEY")
    /\ masterPlaylist' =
           [masterPlaylist EXCEPT
               !.SessionKeys = AppendKey(@, parseKey(lines[i + 1]))]
    /\ dispatched' = Append(dispatched, i)
    /\ i' = i + 1
    /\ UNCHANGED <<mode, calls, lookahead, decoded, resolves, lines, pc, streamCounter, streamMap, mediaPlaylist,
                   ret, consumed, contrib, sorts>>

\* A STREAM-INF tag on the last line: `continue`.
MasterStreamInfDropped ==
    /\ MasterAt("STREAM-INF")
    /\ MissingURI(i, Len(lines))
    /\ dispatched' = Append(dispatched, i)
    /\ i' = i + 1
    /\ UNCHANGED <<mode, calls, lookahead, decoded, resolves, lines, pc, masterPlaylist, streamCounter, streamMap,
                   mediaPlaylist, ret, consumed, contrib, sorts>>

\* A STREAM-INF tag and its URI line: the aggregation.
MasterStreamInf ==
    /\ MasterAt("STREAM-INF")
    /\ ~MissingURI(i, Len(lines))
    /\ LET attrs   == parseAttributes(lines[i + 1], "#EXT-X-STREAM-INF:")
           uriLine == lines[i + 2]
           exists  == StreamExists(streamMap, uriLine)
           pos     == IF exists THEN streamMap[uriLine]
                      ELSE Len(masterPlaylist.Streams) + 1
           found   == IF exists THEN masterPlaylist.Streams[pos]
                      ELSE NewStream(streamCounter, uriLine, attrs)
           overwritten(heard) ==
               IF LowerBandwidth(exists, attrs, heard)
               THEN populateStreamAttributes(heard, attrs)
               ELSE heard
           stored(streams, stream) ==
               IF exists THEN [streams EXCEPT ![pos] = stream]
               ELSE Append(streams, stream)
       IN  /\ masterPlaylist' =
                  [masterPlaylist EXCEPT !.Streams =
                      stored(@, overwritten(AddAudio(found, attrs)))]
           /\ streamMap' = IF exists THEN streamMap
                           ELSE (uriLine :> pos) @@ streamMap
           /\ streamCounter' = CounterAfterStream(streamCounter, exists)
           /\ contrib' = Append(contrib,
                                [tag |-> i, uri |-> i + 1, pos |-> pos,
                                 created |-> ~exists])
    /\ dispatched' = Append(dispatched, i)
    /\ consumed' = Append(consumed, i + 1)
    /\ lookahead' = Append(lookahead, i + 1)
    /\ i' = NextIndex(i, TRUE)
    /\ UNCHANGED <<mode, calls, decoded, resolves, lines, pc, mediaPlaylist, ret, sorts>>

\* A line that matches none of the three prefixes.
MasterOther ==
    /\ MasterAt("none")
    /\ dispatched' = Append(dispatched, i)
    /\ i' = i + 1
    /\ UNCHANGED <<mode, calls, lookahead, decoded, resolves, lines, pc, masterPlaylist, streamCounter, streamMap,
                   mediaPlaylist, ret, consumed, contrib, sorts>>

\* `return masterPlaylist, nil`
MasterReturn ==
    /\ mode = "master"
    /\ pc = "loop"
    /\ i >= Len(lines)
    /\ pc' = "done"
    /\ ret' = [playlist |-> "master", err |-> ""]
    /\ UNCHANGED <<mode, calls, lookahead, decoded, resolves, lines, i, masterPlaylist, streamCounter, streamMap,
                   mediaPlaylist, dispatched, consumed, contrib, sorts>>

(***************************************************************************)
(* parseMedia                                                              *)
(***************************************************************************)
\* The first case of parseMedia's switch that a line matches.
MediaCase(line) ==
    IF HasPrefix(line, "#EXT-X-VERSION:") THEN "VERSION"
    ELSE IF HasPrefix(line, "#EXT-X-TARGETDURATION:") THEN "TARGETDURATION"
    ELSE IF HasPrefix(line, "#EXT-X-MEDIA-SEQUENCE:") THEN "MEDIA-SEQUENCE"
    ELSE IF HasPrefix(line, "#EXT-X-PLAYLIST-TYPE:") THEN "PLAYLIST-TYPE"
    ELSE IF HasPrefix(line, "#EXT-X-ENDLIST") THEN "ENDLIST"
    ELSE IF HasPrefix(line, "#EXT-X-KEY:") THEN "KEY"
    ELSE IF HasPrefix(line, "#EXT-X-MAP:") THEN "MAP"
    ELSE IF HasPrefix(line, "#EXTINF:") THEN "EXTINF"
    ELSE "none"

MediaAt(case) ==
    /\ mode = "media"
    /\ pc = "loop"
    /\ i < Len(lines)
    /\ MediaCase(lines[i + 1]) = case

\* (*NumError).Error: why is the text of ErrSyntax or ErrRange.
NumError(fn, text, why) ==
    "strconv." \o fn \o ": parsing " \o Quote(text) \o ": " \o why

\* `return nil, fmt.Errorf("invalid <what>: %w", err)`
Abort(what, fn, text, why) ==
    /\ pc' = "done"
    /\ ret' = [playlist |-> "nil",
               err |-> "invalid " \o what \o ": " \o NumError(fn, text, why)]
    /\ dispatched' = Append(dispatched, i)
    /\ UNCHANGED <<mode, calls, lookahead, decoded, resolves, lines, i, masterPlaylist, streamCounter, streamMap,
                   mediaPlaylist, consumed, contrib, sorts>>

\* The end of a loop iteration that changed the playlist to mp and read one line.
MediaStep(mp) ==
    /\ mediaPlaylist' = mp
    /\ dispatched' = Append(dispatched, i)
    /\ i' = i + 1
    /\ UNCHANGED <<mode, calls, lookahead, decoded, resolves, lines, pc, masterPlaylist, streamCounter, streamMap,
                   ret, consumed, contrib, sorts>>

\* Mutant of TagInt: a text that does not parse is taken as 0 without error.
TagIntLenient(line, prefix) ==
    [n |-> Atoi(TrimPrefix(line, prefix)).n, err |-> FALSE, why |-> ""]

\* The integer a numeric tag carries: Atoi of the text after the prefix.
TagInt(line, prefix) == Atoi(TrimPrefix(line, prefix))

MediaVersion ==
    /\ MediaAt("VERSION")
    /\ LET text == TrimPrefix(lines[i + 1], "#EXT-X-VERSION:")
           r    == TagInt(lines[i + 1], "#EXT-X-VERSION:")
       IN  IF r.err THEN Abort("EXT-X-VERSION", "Atoi", text, r.why)
           ELSE MediaStep([mediaPlaylist EXCEPT !.Version = r.n])

MediaTargetDuration ==
    /\ MediaAt("TARGETDURATION")
    /\ LET text == TrimPrefix(lines[i + 1], "#EXT-X-TARGETDURATION:")
           r    == TagInt(lines[i + 1], "#EXT-X-TARGETDURATION:")
       IN  IF r.err THEN Abort("EXT-X-TARGETDURATION", "Atoi", text, r.why)
           ELSE MediaStep([mediaPlaylist EXCEPT !.TargetDuration = r.n])

MediaMediaSequence ==
    /\ MediaAt("MEDIA-SEQUENCE")
    /\ LET text == TrimPrefix(lines[i + 1], "#EXT-X-MEDIA-SEQUENCE:")
           r    == TagInt(lines[i + 1], "#EXT-X-MEDIA-SEQUENCE:")
       IN  IF r.err THEN Abort("EXT-X-MEDIA-SEQUENCE", "Atoi", text, r.why)
           ELSE MediaStep([mediaPlaylist EXCEPT !.MediaSequence = r.n])

MediaPlaylistType ==
    /\ MediaAt("PLAYLIST-TYPE")
    /\ MediaStep([mediaPlaylist EXCEPT
                     !.PlaylistType = TrimPrefix(lines[i + 1], "#EXT-X-PLAYLIST-TYPE:")])

MediaEndList ==
    /\ MediaAt("ENDLIST")
    /\ MediaStep([mediaPlaylist EXCEPT !.EndList = TRUE])

MediaKey ==
    /\ MediaAt("KEY")
    /\ MediaStep([mediaPlaylist EXCEPT
                     !.Keys = AppendKey(@, parseKey(lines[i + 1]))])

\* Mutant of SetMap: a map that is already set is kept.
SetMapOnce(mp, uri) ==
    IF uri.nil \/ ~mp.Map.nil THEN mp ELSE [mp EXCEPT !.Map = uri]

\* `mediaPlaylist.Map = parsedURL`, reached only with a URI attribute that
\* is present, non-empty and well formed.
SetMap(mp, uri) == IF uri.nil THEN mp ELSE [mp EXCEPT !.Map = uri]

MediaMap ==
    /\ MediaAt("MAP")
    /\ MediaStep(SetMap(mediaPlaylist,
                        AttrURI(parseAttributes(lines[i + 1], "#EXT-X-MAP:"))))

\* The duration of an EXTINF line: ParseFloat of the text before the first comma.
ExtInfDuration(line) == ParseFloat(Cut(TrimPrefix(line, "#EXTINF:"), ",").before)

\* Mutant of TakesNextLine: a comment line is taken as the URI too.
TakesNextNonEmptyLine(idx, ls) ==
    /\ idx + 1 < Len(ls)
    /\ ls[idx + 2] # ""

\* `i+1 < len(lines)` and the next line is neither a comment nor empty.
TakesNextLine(idx, ls) ==
    /\ idx + 1 < Len(ls)
    /\ ~HasPrefix(ls[idx + 2], "#")
    /\ ls[idx + 2] # ""

MediaExtInf ==
    /\ MediaAt("EXTINF")
    /\ LET raw   == TrimPrefix(lines[i + 1], "#EXTINF:")
           parts == Cut(raw, ",")
           takes == TakesNextLine(i, lines)
           seg(d) == [URI      |-> IF takes THEN urlParse(lines[i + 2]).url
                                   ELSE NilURL,
                      Duration |-> d.val,
                      Title    |-> TrimSpace(parts.after)]
           segment(d) ==
               IF ~d.ok
               THEN Abort("EXTINF duration", "ParseFloat", parts.before, d.why)
               ELSE /\ mediaPlaylist' =
                           [mediaPlaylist EXCEPT !.Segments = Append(@, seg(d))]
                    /\ dispatched' = Append(dispatched, i)
                    /\ consumed' = IF takes THEN Append(consumed, i + 1)
                                   ELSE consumed
                    /\ lookahead' = IF i + 1 < Len(lines)
                                    THEN Append(lookahead, i + 1)
                                    ELSE lookahead
                    /\ i' = NextIndex(i, takes)
                    /\ UNCHANGED <<mode, calls, decoded, resolves, lines, pc,
                                   masterPlaylist, streamCounter, streamMap,
                                   ret, contrib, sorts>>
       IN  segment(ExtInfDuration(lines[i + 1]))

\* A line that matches no case of the switch.
MediaOther ==
    /\ MediaAt("none")
    /\ MediaStep(mediaPlaylist)

\* `return mediaPlaylist, nil`
MediaReturn ==
    /\ mode = "media"
    /\ pc = "loop"
    /\ i >= Len(lines)
    /\ pc' = "done"
    /\ ret' = [playlist |-> "media", err |-> ""]
    /\ UNCHANGED <<mode, calls, lookahead, decoded, resolves, lines, i, masterPlaylist, streamCounter, streamMap,
                   mediaPlaylist, dispatched, consumed, contrib, sorts>>

(***************************************************************************)
(* MasterPlaylist.Sort.  sort.Slice is pdqsort_func of package sort; the   *)
(* indices a, b, i, j are Go's (0-based, b exclusive): data[k] of the      *)
(* source is data[k + 1] here.                                             *)
(***************************************************************************)
\* Mutant of SortBandwidth: the average bandwidth is ignored.
SortByPeakBandwidth(stream) == stream.Bandwidth

SortBandwidth(stream) ==
    IF IntLess(GoInt(0), stream.AverageBandwidth) THEN stream.AverageBandwidth
    ELSE stream.Bandwidth

\* x < y on Go strings: Go compares strings bytewise.
RECURSIVE StrLess(_, _)
StrLess(x, y) ==
    IF Len(y) = 0 THEN FALSE
    ELSE IF Len(x) = 0 THEN TRUE
    ELSE IF CharAt(x, 1) = CharAt(y, 1)
    THEN StrLess(SubSeq(x, 2, Len(x)), SubSeq(y, 2, Len(y)))
    ELSE Code(CharAt(x, 1)) < Code(CharAt(y, 1))

\* The two less functions Sort hands to sort.Slice.
StreamLess(x, y) == IntLess(SortBandwidth(x), SortBandwidth(y))

MediaLess(x, y) == StrLess(x.GroupID, y.GroupID)

Less(kind, x, y) == IF kind = "streams" THEN StreamLess(x, y) ELSE MediaLess(x, y)

\* maxInsertion of pdqsort_func: slices up to this length are insertion sorted.
MaxInsertion == 12

Swap(data, x, y) == [data EXCEPT ![x + 1] = data[y + 1], ![y + 1] = data[x + 1]]

RECURSIVE InsertionInner(_, _, _, _)
InsertionInner(kind, data, a, j) ==
    IF j > a /\ Less(kind, data[j + 1], data[j])
    THEN InsertionInner(kind, Swap(data, j, j - 1), a, j - 1)
    ELSE data

RECURSIVE InsertionOuter(_, _, _, _, _)
InsertionOuter(kind, data, a, b, k) ==
    IF k >= b THEN data
    ELSE InsertionOuter(kind, InsertionInner(kind, data, a, k), a, b, k + 1)

insertionSort_func(kind, data, a, b) == InsertionOuter(kind, data, a, b, a + 1)

\* order2_func: [x, y, swaps] with data[x] <= data[y].
order2_func(kind, data, x, y, swaps) ==
    IF Less(kind, data[y + 1], data[x + 1])
    THEN [x |-> y, y |-> x, swaps |-> swaps + 1]
    ELSE [x |-> x, y |-> y, swaps |-> swaps]

\* median_func: the index of the median of data[x], data[y], data[z].
median_func(kind, data, x, y, z, swaps) ==
    LET third(s3) == [pivot |-> s3.y, swaps |-> s3.swaps]
        second(s1, s2) == third(order2_func(kind, data, s1.x, s2.x, s2.swaps))
        first(s1) == second(s1, order2_func(kind, data, s1.y, z, s1.swaps))
    IN  first(order2_func(kind, data, x, y, swaps))

\* choosePivot_func for slices shorter than shortestNinther (50): a static
\* pivot below 8 elements, the median of three from 8 on.
choosePivot_func(kind, data, a, b) ==
    LET l  == b - a
        q  == l \div 4
        chosen(m) ==
            [pivot |-> m.pivot,
             hint  |-> IF m.swaps = 0 THEN "increasing" ELSE "unknown"]
    IN  chosen(IF l >= 8
               THEN median_func(kind, data, a + q, a + q * 2, a + q * 3, 0)
               ELSE [pivot |-> a + q * 2, swaps |-> 0])

\* partialInsertionSort_func for slices shorter than shortestShifting (50):
\* it moves nothing and reports whether data[a:b] is already sorted.
partialInsertionSort_func(kind, data, a, b) ==
    \A k \in (a + 1)..(b - 1) : ~Less(kind, data[k + 1], data[k])

RECURSIVE ScanUp(_, _, _, _, _)
ScanUp(kind, data, a, lo, hi) ==
    IF lo <= hi /\ Less(kind, data[lo + 1], data[a + 1])
    THEN ScanUp(kind, data, a, lo + 1, hi)
    ELSE lo

RECURSIVE ScanDown(_, _, _, _, _)
ScanDown(kind, data, a, lo, hi) ==
    IF lo <= hi /\ ~Less(kind, data[hi + 1], data[a + 1])
    THEN ScanDown(kind, data, a, lo, hi - 1)
    ELSE hi

RECURSIVE PartitionLoop(_, _, _, _, _)
PartitionLoop(kind, data, a, lo, hi) ==
    LET scanned(lo2, hi2) ==
            IF lo2 > hi2 THEN [data |-> data, j |-> hi2]
            ELSE PartitionLoop(kind, Swap(data, lo2, hi2), a, lo2 + 1, hi2 - 1)
        up(lo2) == scanned(lo2, ScanDown(kind, data, a, lo2, hi))
    IN  up(ScanUp(kind, data, a, lo, hi))

\* partition_func: [data, mid] with data[mid] the pivot, smaller elements
\* before it and the others after it.
partition_func(kind, data, a, b, pivot) ==
    LET d0 == Swap(data, a, pivot)
        placed(end) == [data |-> Swap(end.data, end.j, a), mid |-> end.j]
        scanned(lo, hi) ==
            IF lo > hi
            THEN [data |-> Swap(d0, hi, a), mid |-> hi]
            ELSE placed(PartitionLoop(kind, Swap(d0, lo, hi), a, lo + 1, hi - 1))
        up(lo) == scanned(lo, ScanDown(kind, d0, a, lo, b - 1))
    IN  up(ScanUp(kind, d0, a, a + 1, b - 1))

\* pdqsort_func on data[a:b] for slices of at most maxInsertion + 1 elements,
\* the lengths this model sorts: after one partition both sides hold at most
\* maxInsertion elements and are insertion sorted, so breakPatterns_func,
\* heapSort_func and partitionEqual_func, reached from longer slices only,
\* are not needed; with fewer than 50 elements choosePivot_func never
\* reports a decreasing slice, so reverseRange_func is not needed either.
RECURSIVE pdqsort_func(_, _, _, _)
pdqsort_func(kind, data, a, b) ==
    IF b - a <= MaxInsertion THEN insertionSort_func(kind, data, a, b)
    ELSE LET halves(pt) ==
                 pdqsort_func(kind, pdqsort_func(kind, pt.data, a, pt.mid),
                              pt.mid + 1, b)
             pivoted(cp) ==
                 IF /\ cp.hint = "increasing"
                    /\ partialInsertionSort_func(kind, data, a, b)
                 THEN data
                 ELSE halves(partition_func(kind, data, a, b, cp.pivot))
         IN  pivoted(choosePivot_func(kind, data, a, b))

\* sort.Slice(x, less)
SortSlice(kind, data) == pdqsort_func(kind, data, 0, Len(data))

\* MasterPlaylist.Sort, called on the playlist parseMaster returned.
Sort ==
    /\ mode = "master"
    /\ pc = "done"
    /\ sorts < MaxSorts
    /\ masterPlaylist' =
           [masterPlaylist EXCEPT !.Streams = SortSlice("streams", @),
                                  !.Medias  = SortSlice("medias", @)]
    /\ sorts' = sorts + 1
    /\ UNCHANGED <<mode, calls, lookahead, decoded, resolves, lines, i, pc, streamCounter, streamMap, mediaPlaylist,
                   ret, dispatched, consumed, contrib>>

(***************************************************************************)
(* ResolveURIs, called on the playlist a parser returned.                  *)
(***************************************************************************)
\* Mutant of resolveURI: receiver and argument of ResolveReference swapped.
resolveURISwapped(uri, base) ==
    IF uri.nil THEN uri ELSE ResolveReference(uri, base)

\* `if x.URI != nil { x.URI = base.ResolveReference(x.URI) }`
resolveURI(uri, base) ==
    IF uri.nil THEN uri ELSE ResolveReference(base, uri)

\* Segment.resolve and SessionKey.resolve, and the inline form for streams
\* and renditions.
resolve(item, base) == [item EXCEPT !.URI = resolveURI(@, base)]

\* A `for _, item := range` loop that resolves every item of a list.
resolveAll(items, base) ==
    [k \in 1..Len(items) |-> resolve(items[k], base)]

\* The bases ResolveURIs is called with: a hierarchical absolute URI, an
\* opaque absolute URI and a relative reference.
BaseTexts == {"http://h/d/e?q#f", "data:x,y", "/r/s"}

MaxResolves == 2

MasterResolveURIs ==
    /\ mode = "master"
    /\ pc = "done"
    /\ ret.playlist = "master"
    /\ Len(resolves) < MaxResolves
    /\ LET ResolveURIs(base) ==
               [Streams     |-> resolveAll(masterPlaylist.Streams, base),
                Medias      |-> resolveAll(masterPlaylist.Medias, base),
                SessionKeys |-> resolveAll(masterPlaylist.SessionKeys, base)]
       IN  \E b \in BaseTexts :
               /\ masterPlaylist' = ResolveURIs(urlParse(b).url)
               /\ resolves' = Append(resolves, b)
    /\ UNCHANGED <<mode, calls, lookahead, decoded, lines, i, pc, streamCounter, streamMap, mediaPlaylist,
                   ret, dispatched, consumed, contrib, sorts>>

MediaResolveURIs ==
    /\ mode = "media"
    /\ pc = "done"
    /\ ret.playlist = "media"
    /\ Len(resolves) < MaxResolves
    /\ LET ResolveURIs(base) ==
               [mediaPlaylist EXCEPT
                   !.Keys     = resolveAll(@, base),
                   !.Segments = resolveAll(@, base),
                   !.Map      = resolveURI(@, base)]
       IN  \E b \in BaseTexts :
               /\ mediaPlaylist' = ResolveURIs(urlParse(b).url)
               /\ resolves' = Append(resolves, b)
    /\ UNCHANGED <<mode, calls, lookahead, decoded, lines, i, pc, masterPlaylist, streamCounter,
                   streamMap, ret, dispatched, consumed, contrib, sorts>>

(***************************************************************************)
(* SessionKey.DecodeData, called on a key of the playlist a parser         *)
(* returned.                                                               *)
(***************************************************************************)
\* strings.Contains
Contains(s, sub) ==
    \E k \in 1..(Len(s) - Len(sub) + 1) : SubSeq(s, k, k + Len(sub) - 1) = sub

\* The alphabet of base64.StdEncoding; the value of a character is its
\* position less one, 0 - 1 for a character outside the alphabet.
StdAlphabet ==
    "ABCDEFGHIJKLMNOPQRSTUVWXYZabcdefghijklmnopqrstuvwxyz0123456789+/"

decodeMap(c) == IndexFrom(StdAlphabet, c, 1) - 1

\* The bytes of a quantum of dlen characters with values d (padded with 0).
QuantumBytes(d, dlen) ==
    LET val == d[1] * 262144 + d[2] * 4096 + d[3] * 64 + d[4]
    IN  SubSeq(<<val \div 65536, (val \div 256) % 256, val % 256>>, 1, dlen - 1)

\* CorruptInputError(at): what was decoded before the error, and the offset.
Corrupt(out, at) ==
    [data |-> out, err |-> "illegal base64 data at input byte", at |-> at]

\* Encoding.decodeQuantum and the loop of Encoding.Decode over it: src is
\* read from the 0-based offset si, d holds the values of the j characters
\* of the current quantum, out the bytes of the quanta before it.  (The
\* skipping of \r and \n is left out: a manifest line holds neither.)
RECURSIVE decodeFrom(_, _, _, _, _)
decodeFrom(src, si, j, d, out) ==
    IF j = 4
    THEN decodeFrom(src, si, 0, <<0, 0, 0, 0>>, out \o QuantumBytes(d, 4))
    ELSE IF si = Len(src)
    THEN IF j = 0 THEN [data |-> out, err |-> "", at |-> 0 - 1]
         ELSE Corrupt(out, si - j)
    ELSE LET in == CharAt(src, si + 1)
         IN  IF decodeMap(in) >= 0
             THEN decodeFrom(src, si + 1, j + 1,
                             [d EXCEPT ![j + 1] = decodeMap(in)], out)
             ELSE IF in # "=" THEN Corrupt(out, si)
             ELSE IF j < 2 THEN Corrupt(out, si)
             ELSE IF j = 2 /\ si + 1 = Len(src) THEN Corrupt(out, Len(src))
             ELSE IF j = 2 /\ CharAt(src, si + 2) # "=" THEN Corrupt(out, si)
             ELSE LET end == IF j = 2 THEN si + 2 ELSE si + 1
                      all == out \o QuantumBytes(d, j)
                  IN  IF end < Len(src) THEN Corrupt(all, end)
                      ELSE [data |-> all, err |-> "", at |-> 0 - 1]

\* base64.StdEncoding.DecodeString
DecodeString(s) == decodeFrom(s, 0, 0, <<0, 0, 0, 0>>, <<>>)

\* return nil, errors.New(text)
DecodeError(text) == [data |-> <<>>, err |-> text, at |-> 0 - 1]

\* (*SessionKey).DecodeData
DecodeData(k) ==
    IF k.URI.nil THEN DecodeError("URI is nil")
    ELSE IF k.URI.Scheme # "data" THEN DecodeError("URI is not a data URI")
    ELSE LET cut == Cut(k.URI.Opaque, ",")
         IN  IF ~cut.found
             THEN DecodeError("invalid data URI: missing comma separator")
             ELSE IF ~Contains(cut.before, ";base64")
             THEN DecodeError("data URI does not contain base64 indicator")
             ELSE DecodeString(cut.after)

MaxDecodes == 2

\* The keys of the playlist the parser returned.
ReturnedKeys ==
    IF pc # "done" THEN <<>>
    ELSE IF ret.playlist = "media" THEN mediaPlaylist.Keys
    ELSE IF ret.playlist = "master" THEN masterPlaylist.SessionKeys
    ELSE <<>>

\* A DecodeData call on the k-th key.
KeyDecodeData ==
    /\ Len(decoded) < MaxDecodes
    /\ \E k \in 1..Len(ReturnedKeys) :
          decoded' = Append(decoded,
                            [key |-> k, out |-> DecodeData(ReturnedKeys[k])])
    /\ UNCHANGED <<mode, calls, lookahead, lines, i, pc, masterPlaylist, streamCounter,
                   streamMap, mediaPlaylist, ret, dispatched, consumed,
                   contrib, sorts, resolves>>

(***************************************************************************)
(* The manifests the parsers are run on.                                   *)
(***************************************************************************)
\* Every sequence of at most n elements of S.
RECURSIVE SeqsUpTo(_, _)
SeqsUpTo(S, n) ==
    IF n = 0 THEN {<<>>}
    ELSE LET shorter == SeqsUpTo(S, n - 1)
         IN  shorter \cup {Append(q, x) : q \in shorter, x \in S}

StreamInfLines ==
    {"#EXT-X-STREAM-INF:BANDWIDTH=2,AUDIO=\"a\",CODECS=\"x,y\"",
     "#EXT-X-STREAM-INF:BANDWIDTH=1,AVERAGE-BANDWIDTH=3,AUDIO=\"b\"",
     "#EXT-X-STREAM-INF:BANDWIDTH=abc,RESOLUTION=1x1"}

\* Two more tags for the aggregation: no BANDWIDTH at all, and a second tag
\* of bandwidth 1 with other attributes.
MoreStreamInfLines ==
    {"#EXT-X-STREAM-INF:AUDIO=\"a\",FRAME-RATE=30,SUBTITLES=\"s\"",
     "#EXT-X-STREAM-INF:BANDWIDTH=1,CODECS=\"z\""}

URILines == {"u.m3u8", ":v"}

MasterLines ==
    StreamInfLines \cup URILines \cup
    {"#EXT-X-MEDIA:TYPE=AUDIO,GROUP-ID=\"b\",NAME=\"n\",DEFAULT=YES,URI=\"a.m3u8\"",
     "#EXT-X-MEDIA:TYPE=SUBTITLES,GROUP-ID=\"a\"",
     "#EXT-X-SESSION-KEY:METHOD=AES-128,URI=\"data:text/plain;base64,aGVsbG8=\"",
     "#EXTM3U"}

\* Any lines at all, up to MaxMasterLines of them.
MasterInputs == SeqsUpTo(MasterLines, MaxMasterLines)

\* Up to MaxAggTags STREAM-INF tags, each followed by its URI line.
RECURSIVE Flatten(_)
Flatten(pairs) ==
    IF Len(pairs) = 0 THEN <<>> ELSE Head(pairs) \o Flatten(Tail(pairs))

AggInputs ==
    {Flatten(q) :
        q \in SeqsUpTo({<<t, u>> : t \in StreamInfLines \cup MoreStreamInfLines,
                                   u \in URILines},
                       MaxAggTags)}

MediaLines ==
    {"#EXT-X-VERSION:3", "#EXT-X-VERSION:x",
     "#EXT-X-TARGETDURATION:9", "#EXT-X-TARGETDURATION:",
     "#EXT-X-MEDIA-SEQUENCE:-1", "#EXT-X-MEDIA-SEQUENCE:1.5",
     "#EXT-X-PLAYLIST-TYPE:VOD", "#EXT-X-ENDLIST",
     "#EXT-X-KEY:METHOD=AES-128,URI=\"k\"",
     "#EXT-X-MAP:URI=\"a.mp4\"", "#EXT-X-MAP:URI=\"b.mp4\"",
     "#EXTINF:6.0, Title ", "#EXTINF:6,", "#EXTINF:six,t",
     "seg0.mp4", "", "#EXTM3U"}

MediaInputs == SeqsUpTo(MediaLines, MaxMediaLines)

\* Manifests at the edges of strconv, strings and net/url.  Master: up to
\* MaxEdgeTags tags, each with its URI line; the BANDWIDTH texts are one in
\* range, one with digits beyond uint64 before a letter, one below the
\* least int and one with an underscore, and the URI lines are one that
\* url.Parse rejects and one with userinfo.
EdgeStreamInfLines ==
    {"#EXT-X-STREAM-INF:BANDWIDTH=5,CODECS=\"a\"",
     "#EXT-X-STREAM-INF:BANDWIDTH=99999999999999999999x,CODECS=\"b\"",
     "#EXT-X-STREAM-INF:BANDWIDTH=-99999999999999999999,CODECS=\"c\"",
     "#EXT-X-STREAM-INF:BANDWIDTH=1_0,CODECS=\"d\""}

EdgeURILines == {"http://a b/c", "http://u@h/p"}

EdgeMasterInputs ==
    {Flatten(q) :
        q \in SeqsUpTo({<<t, u>> : t \in EdgeStreamInfLines, u \in EdgeURILines},
                       MaxEdgeTags)}

\* Media: up to MaxEdgeLines lines: integers in quotes, out of range, with a
\* carriage return and with a backslash; durations with an underscore, out
\* of range and in hexadecimal; titles with form feeds and with the bytes of
\* U+00A0 and U+0085 around them; URI lines that url.Parse rejects.
EdgeMediaLines ==
    {"#EXT-X-VERSION:\"3\"", "#EXT-X-VERSION:99999999999999999999",
     "#EXT-X-TARGETDURATION:3\r", "#EXT-X-MEDIA-SEQUENCE:a\\b",
     "#EXTINF:1_0,\fT\f", "#EXTINF:1e999,", "#EXTINF:0x1p4,ￂﾠTￂﾅ",
     "http://[::1/p", "a%zzb", "http://h:x/p", "http://h/a\tb",
     "#EXT-X-VERSION:￢ﾀﾋ", "#EXTINF:￯ﾻ﾿6,"}

EdgeMediaInputs == SeqsUpTo(EdgeMediaLines, MaxEdgeLines)

(***************************************************************************)
(* The specification: one call of parseMaster, then Sort on its result, or *)
(* one call of parseMedia.                                                 *)
(***************************************************************************)
\* The state at the first evaluation of the loop condition.
Start(m, ls) ==
    /\ mode = m
    /\ lines = ls
    /\ i = 0
    /\ pc = "loop"
    /\ masterPlaylist = ZeroMasterPlaylist
    /\ streamCounter = 0
    /\ streamMap = <<>>
    /\ mediaPlaylist = ZeroMediaPlaylist
    /\ ret = [playlist |-> "none", err |-> ""]
    /\ dispatched = <<>>
    /\ consumed = <<>>
    /\ contrib = <<>>
    /\ sorts = 0
    /\ resolves = <<>>
    /\ decoded = <<>>
    /\ calls = <<>>
    /\ lookahead = <<>>

Init ==
    \/ \E ls \in MasterInputs \cup AggInputs \cup EdgeMasterInputs :
          Start("master", ls)
    \/ \E ls \in MediaInputs \cup EdgeMediaInputs : Start("media", ls)

Next ==
    \/ MasterMedia
    \/ MasterSessionKey
    \/ MasterStreamInfDropped
    \/ MasterStreamInf
    \/ MasterOther
    \/ MasterReturn
    \/ Sort
    \/ MediaVersion
    \/ MediaTargetDuration
    \/ MediaMediaSequence
    \/ MediaPlaylistType
    \/ MediaEndList
    \/ MediaKey
    \/ MediaMap
    \/ MediaExtInf
    \/ MediaOther
    \/ MediaReturn

Spec == Init /\ [][Next]_vars

(***************************************************************************)
(* A second specification for Sort: parseMaster on manifests of n          *)
(* renditions and n streams, then Sort on the playlist it returned.  The   *)
(* sizes include maxInsertion + 1, the shortest slice that pdqsort_func    *)
(* partitions instead of insertion sorting.                                *)
(***************************************************************************)
MaxSmallSort == 3

SortLen == MaxInsertion + 1

SortSizes == (0..MaxSmallSort) \cup {SortLen}

NameOf(k) == CharAt("abcdefghijklmnopqrstuvwxyz", k)

\* The rendition and the stream of entry k: "plain" has sort bandwidth 2 and
\* group b, "averaged" has sort bandwidth 1 (its average) and group a.
SortEntry(k, kind) ==
    IF kind = "plain"
    THEN <<"#EXT-X-MEDIA:GROUP-ID=\"b\",NAME=\"" \o NameOf(k) \o "\"",
           "#EXT-X-STREAM-INF:BANDWIDTH=2",
           "s" \o NameOf(k) \o ".m3u8">>
    ELSE <<"#EXT-X-MEDIA:GROUP-ID=\"a\",NAME=\"" \o NameOf(k) \o "\"",
           "#EXT-X-STREAM-INF:BANDWIDTH=3,AVERAGE-BANDWIDTH=1",
           "s" \o NameOf(k) \o ".m3u8">>

RECURSIVE SortManifest(_, _)
SortManifest(kinds, n) ==
    IF n = 0 THEN <<>>
    ELSE SortManifest(kinds, n - 1) \o SortEntry(n, kinds[n])

SortInputs ==
    {SortManifest(kinds, n) :
        kinds \in [1..SortLen -> {"plain", "averaged"}], n \in SortSizes}

InitSort == \E ls \in SortInputs : Start("master", ls)

NextSort ==
    \/ MasterMedia
    \/ MasterStreamInf
    \/ MasterReturn
    \/ Sort

SpecSort == InitSort /\ [][NextSort]_vars

(***************************************************************************)
(* A third specification for ResolveURIs: a parser run on a manifest of n  *)
(* entities that carry a URI, then ResolveURIs on the playlist it          *)
(* returned.  The URI texts are relative (a path, a path with dot          *)
(* segments, a rooted path, a query only) and absolute (hierarchical with  *)
(* a dot segment, opaque), and one that url.Parse rejects.                 *)
(***************************************************************************)
MaxResolveEntities == 3

ResolveURITexts ==
    {"seg.ts", "../up.ts", "/abs/p", "?q=1", "http://o/a/../b",
     "data:text/plain;base64,aGk=", ":bad"}

\* The lines of entity k of a media manifest: a segment, a key, a map, ...
MediaEntity(k, uri) ==
    IF k % 3 = 1 THEN <<"#EXTINF:1,", uri>>
    ELSE IF k % 3 = 2
    THEN <<"#EXT-X-KEY:METHOD=AES-128,URI=\"" \o uri \o "\"">>
    ELSE <<"#EXT-X-MAP:URI=\"" \o uri \o "\"">>

\* The lines of entity k of a master manifest: a stream, a rendition, a
\* session key, ...
MasterEntity(k, uri) ==
    IF k % 3 = 1 THEN <<"#EXT-X-STREAM-INF:BANDWIDTH=1", uri>>
    ELSE IF k % 3 = 2
    THEN <<"#EXT-X-MEDIA:TYPE=AUDIO,URI=\"" \o uri \o "\"">>
    ELSE <<"#EXT-X-SESSION-KEY:METHOD=AES-128,URI=\"" \o uri \o "\"">>

RECURSIVE ResolveManifest(_, _, _)
ResolveManifest(m, uris, n) ==
    IF n = 0 THEN <<>>
    ELSE ResolveManifest(m, uris, n - 1)
         \o (IF m = "media" THEN MediaEntity(n, uris[n])
             ELSE MasterEntity(n, uris[n]))

\* The URI texts that any number of entities of a manifest may carry; of the
\* other texts a manifest carries at most one.
RepeatedURITexts == {"../up.ts", "http://o/a/../b", ":bad"}

ResolveInputs(m) ==
    {ResolveManifest(m, uris, Len(uris)) :
        uris \in {s \in SeqsUpTo(ResolveURITexts, MaxResolveEntities) :
                     Cardinality({k \in DOMAIN s :
                                     s[k] \notin RepeatedURITexts}) <= 1}}

InitResolve ==
    \E m \in {"master", "media"} : \E ls \in ResolveInputs(m) : Start(m, ls)

NextResolve ==
    \/ MasterMedia
    \/ MasterSessionKey
    \/ MasterStreamInf
    \/ MasterReturn
    \/ MasterResolveURIs
    \/ MediaKey
    \/ MediaMap
    \/ MediaExtInf
    \/ MediaReturn
    \/ MediaResolveURIs

SpecResolve == InitResolve /\ [][NextResolve]_vars

(***************************************************************************)
(* A fourth specification for keys and maps: a parser run on a manifest of *)
(* key tags (and, in a media manifest, map tags), then DecodeData on keys  *)
(* of the playlist it returned.  The URI texts of the keys cover every     *)
(* exit of DecodeData; the map tags are two with a URI and three that set  *)
(* no reference: URI missing, empty, and rejected by url.Parse.            *)
(***************************************************************************)
MaxDecodeKeys == 2

DecodeURITexts ==
    {"", "k.bin", "http://o/k",
     "data:k", "data:text/plain;base64", "data:text/plain,aGk=",
     "data:x,y;base64,aGk=",
     "data:text/plain;base64,aGVsbG8=", "data:;base64,aGk=",
     "DATA:;base64,aGk=", "data:;base64,",
     "data:;base64,aGk", "data:;base64,a*k=", "data:;base64,aGk=,x",
     "data:/x;base64,aGk=", "data:;base64,aGk=?q", "data:;base64,aGk=#f"}

KeyLine(m, uri) ==
    (IF m = "media" THEN "#EXT-X-KEY:" ELSE "#EXT-X-SESSION-KEY:")
    \o "METHOD=AES-128,URI=\"" \o uri \o "\""

\* The lines of a manifest of keys: a key tag for each URI text, and a
\* STREAM-INF tag, which in a master manifest takes the line after it as its
\* URI line.
MapLines ==
    {"#EXT-X-MAP:URI=\"a.mp4\"", "#EXT-X-MAP:URI=\"b.mp4\",BYTERANGE=\"9@0\"",
     "#EXT-X-MAP:BYTERANGE=\"9@0\"", "#EXT-X-MAP:URI=\"\"",
     "#EXT-X-MAP:URI=\":bad\""}

DecodeLines(m) ==
    {KeyLine(m, uri) : uri \in DecodeURITexts}
        \cup {"#EXT-X-STREAM-INF:BANDWIDTH=1"}

\* The key tags that follow the first line of a manifest of keys.
LaterKeyLines(m) ==
    {KeyLine(m, uri) : uri \in {"k.bin", "data:x,y;base64,aGk=",
                                "data:;base64,aGk="}}

\* Manifests of keys: any line of DecodeLines first, key tags after it.  And
\* manifests of maps for parseMedia: map tags and a key tag in any order.
DecodeInputs(m) ==
    {<<>>}
        \cup {<<first>> \o rest :
                 first \in DecodeLines(m),
                 rest \in SeqsUpTo(LaterKeyLines(m), MaxDecodeKeys - 1)}
        \cup (IF m = "media"
              THEN SeqsUpTo(MapLines \cup {KeyLine(m, "k.bin")}, MaxDecodeKeys)
              ELSE {})

InitDecode ==
    \E m \in {"master", "media"} : \E ls \in DecodeInputs(m) : Start(m, ls)

NextDecode ==
    \/ MasterSessionKey
    \/ MasterStreamInfDropped
    \/ MasterStreamInf
    \/ MasterReturn
    \/ MediaKey
    \/ MediaMap
    \/ MediaOther
    \/ MediaReturn
    \/ KeyDecodeData

SpecDecode == InitDecode /\ [][NextDecode]_vars

(***************************************************************************)
(* A fifth specification for successive parse calls: when a parser has     *)
(* returned, a parser is called again, on the same or on another manifest. *)
(* Each call starts with the locals its first statements construct.        *)
(***************************************************************************)
MaxCalls == 3

\* Mutant of FreshCounter: the counter outlives the call.
KeptCounter(counter) == counter

\* `streamCounter := 0`: the counter of a call, whatever the one before
\* counted to.
FreshCounter(counter) == 0

\* `streamMap := make(map[string]*ExtStream)`
FreshMap(map) == <<>>

\* What the call that just returned handed to its caller.
Returns ==
    [mode   |-> mode,
     lines  |-> lines,
     ret    |-> ret,
     master |-> IF ret.playlist = "master" THEN masterPlaylist
                ELSE ZeroMasterPlaylist,
     media  |-> IF ret.playlist = "media" THEN mediaPlaylist
                ELSE ZeroMediaPlaylist]

CallInputs ==
    [master |->
        {<<>>,
         <<"#EXT-X-MEDIA:TYPE=AUDIO,GROUP-ID=\"a\"",
           "#EXT-X-STREAM-INF:BANDWIDTH=2,AUDIO=\"a\"", "u.m3u8">>,
         <<"#EXT-X-STREAM-INF:BANDWIDTH=2", "u.m3u8",
           "#EXT-X-STREAM-INF:BANDWIDTH=1", "u.m3u8">>,
         <<"#EXT-X-STREAM-INF:BANDWIDTH=2", "v.m3u8">>},
     media |->
        {<<"#EXT-X-VERSION:3", "#EXTINF:6,", "seg0.mp4">>,
         <<"#EXTINF:6,", "seg0.mp4", "#EXT-X-VERSION:x">>}]

\* The next call of a parser, after the one before has returned.
NewCall ==
    /\ pc = "done"
    /\ Len(calls) < MaxCalls
    /\ calls' = Append(calls, Returns)
    /\ \E m \in DOMAIN CallInputs : \E ls \in CallInputs[m] :
          /\ mode' = m
          /\ lines' = ls
    /\ i' = 0
    /\ pc' = "loop"
    /\ masterPlaylist' = ZeroMasterPlaylist
    /\ streamCounter' = FreshCounter(streamCounter)
    /\ streamMap' = FreshMap(streamMap)
    /\ mediaPlaylist' = ZeroMediaPlaylist
    /\ ret' = [playlist |-> "none", err |-> ""]
    /\ dispatched' = <<>>
    /\ consumed' = <<>>
    /\ contrib' = <<>>
    /\ lookahead' = <<>>
    /\ UNCHANGED <<sorts, resolves, decoded>>

InitCalls ==
    \E m \in DOMAIN CallInputs : \E ls \in CallInputs[m] : Start(m, ls)

NextCalls ==
    \/ MasterMedia
    \/ MasterStreamInf
    \/ MasterReturn
    \/ MediaVersion
    \/ MediaExtInf
    \/ MediaReturn
    \/ NewCall

SpecCalls == InitCalls /\ [][NextCalls]_vars

(***************************************************************************)
(* A sixth specification for termination: one call of a parser, and        *)
(* nothing after it.  A call that has started keeps executing, which is    *)
(* the weak fairness of its steps.                                         *)
(***************************************************************************)
MaxParseLines == 3

ParseMasterLines ==
    {"#EXT-X-MEDIA:TYPE=AUDIO,GROUP-ID=\"a\"",
     "#EXT-X-SESSION-KEY:METHOD=NONE",
     "#EXT-X-STREAM-INF:BANDWIDTH=1",
     "u.m3u8", "", "#EXTM3U"}

ParseMediaLines ==
    {"#EXT-X-VERSION:3", "#EXT-X-TARGETDURATION:", "#EXT-X-MEDIA-SEQUENCE:1",
     "#EXT-X-PLAYLIST-TYPE:VOD", "#EXT-X-ENDLIST", "#EXT-X-KEY:METHOD=NONE",
     "#EXT-X-MAP:URI=\"a.mp4\"", "#EXTINF:6,", "#EXTINF:six,t",
     "seg0.mp4", "", "#EXTM3U"}

InitParse ==
    \/ \E ls \in SeqsUpTo(ParseMasterLines, MaxParseLines) : Start("master", ls)
    \/ \E ls \in SeqsUpTo(ParseMediaLines, MaxParseLines) : Start("media", ls)

NextParse ==
    \/ MasterMedia
    \/ MasterSessionKey
    \/ MasterStreamInfDropped
    \/ MasterStreamInf
    \/ MasterOther
    \/ MasterReturn
    \/ MediaVersion
    \/ MediaTargetDuration
    \/ MediaMediaSequence
    \/ MediaPlaylistType
    \/ MediaEndList
    \/ MediaKey
    \/ MediaMap
    \/ MediaExtInf
    \/ MediaOther
    \/ MediaReturn

\* A call that is in its loop takes its next step: weak fairness of
\* NextParse, which is enabled exactly in the states of the loop.
ParseFairness == []<>(pc # "loop") \/ []<><<NextParse>>_vars

SpecParse == InitParse /\ [][NextParse]_vars /\ ParseFairness

(***************************************************************************)
(* A seventh specification for what a tag of parseMaster leaves alone:     *)
(* one call on manifests made of renditions, session keys, STREAM-INF tags *)
(* with and without a URI line, and other lines.                           *)
(***************************************************************************)
MaxFrameEntries == 3

FrameEntries ==
    {<<t, u>> : t \in StreamInfLines, u \in URILines}
        \cup {<<"#EXT-X-MEDIA:TYPE=SUBTITLES,GROUP-ID=\"a\"">>,
              <<"#EXT-X-SESSION-KEY:METHOD=NONE">>,
              <<"#EXT-X-STREAM-INF:BANDWIDTH=1,CODECS=\"z\"">>,
              <<"#EXTM3U">>}

InitFrame ==
    \E q \in SeqsUpTo(FrameEntries, MaxFrameEntries) : Start("master", Flatten(q))

NextFrame ==
    \/ MasterMedia
    \/ MasterSessionKey
    \/ MasterStreamInfDropped
    \/ MasterStreamInf
    \/ MasterOther
    \/ MasterReturn

SpecFrame == InitFrame /\ [][NextFrame]_vars

(***************************************************************************)
(* Properties of parseMaster.  They are stated over the manifest and the   *)
(* history of the loop, for the playlist as parseMaster builds and returns *)
(* it (sorts = 0: Sort has not reordered the lists).                       *)
(***************************************************************************)
Range(q) == {q[k] : k \in 1..Len(q)}

Parsing == mode = "master" /\ sorts = 0

Returned == mode = "master" /\ pc = "done" /\ sorts = 0

\* The dispatched STREAM-INF tags that have a following line.
StreamInfTags ==
    {d \in Range(dispatched) :
        MasterCase(lines[d + 1]) = "STREAM-INF" /\ d + 1 < Len(lines)}

\* The dispatched STREAM-INF tags on the last line.
DroppedTags ==
    {d \in Range(dispatched) :
        MasterCase(lines[d + 1]) = "STREAM-INF" /\ d + 1 = Len(lines)}

\* The text of the line after tag d.
URIText(d) == lines[d + 2]

URITexts == {URIText(d) : d \in StreamInfTags}

\* The tags that contributed to the stream of URI text t.
TagsOf(t) == {d \in StreamInfTags : URIText(d) = t}

\* The stream parseMaster keeps for URI text t.
StreamOf(t) == masterPlaylist.Streams[streamMap[t]]

\* The attributes of the STREAM-INF lines of the manifests of Init, tokenized
\* once.
KnownTagAttrs ==
    [l \in StreamInfLines \cup MoreStreamInfLines \cup EdgeStreamInfLines |->
        parseAttributes(l, "#EXT-X-STREAM-INF:")]

\* The attributes of tag d.
TagAttrs(d) ==
    IF lines[d + 1] \in DOMAIN KnownTagAttrs
    THEN KnownTagAttrs[lines[d + 1]]
    ELSE parseAttributes(lines[d + 1], "#EXT-X-STREAM-INF:")

\* A decimal integer text, and the BANDWIDTH of tag d with an absent or
\* non-numeric value counting as 0.
IsIntText(text) ==
    LET body == IF Len(text) > 0 /\ CharAt(text, 1) \in {"+", "-"}
                THEN SubSeq(text, 2, Len(text)) ELSE text
    IN  Len(body) > 0 /\ AllDigits(body)

\* The integer a decimal integer text denotes, whatever its size.
IntValue(text) ==
    LET signed == CharAt(text, 1) \in {"+", "-"}
        mag    == StripZeros(IF signed THEN SubSeq(text, 2, Len(text)) ELSE text)
    IN  [neg |-> CharAt(text, 1) = "-" /\ mag # "0", digits |-> mag]

IntOrZero(text) == IF IsIntText(text) THEN IntValue(text) ELSE GoInt(0)

TagBandwidth(d) == IntOrZero(Attr(TagAttrs(d), "BANDWIDTH"))

MinBandwidth(t) ==
    LET bws == {TagBandwidth(d) : d \in TagsOf(t)}
    IN  CHOOSE m \in bws : \A n \in bws : ~IntLess(n, m)

\* The first tag, in manifest order, among the tags of t with the least bandwidth.
FirstMinTag(t) ==
    LET m    == MinBandwidth(t)
        mins == {d \in TagsOf(t) : TagBandwidth(d) = m}
    IN  CHOOSE d \in mins : \A e \in mins : d <= e

\* C1: the stream list has one entry per distinct URI-line text that follows
\* a dispatched STREAM-INF tag (not one per tag), and no two entries were
\* created for the same text.
C1_OneStreamPerURIText ==
    Parsing =>
        /\ Len(masterPlaylist.Streams) = Cardinality(URITexts)
        /\ DOMAIN streamMap = URITexts
        /\ \A t, u \in URITexts : streamMap[t] = streamMap[u] => t = u
        /\ \A c, e \in Range(contrib) :
              (c.created /\ e.created /\ lines[c.uri + 1] = lines[e.uri + 1])
                  => c = e

\* C1 witness: parseMaster returned two streams built from three tags.
C1_Witness ==
    /\ Returned
    /\ Len(masterPlaylist.Streams) = 2
    /\ Cardinality(StreamInfTags) = 3

\* C2: a stream with two or more contributing tags stores the least BANDWIDTH
\* of its tags, and its primary attributes are those of the first tag with
\* that bandwidth; a later tag of equal bandwidth does not overwrite them.
C2_PrimaryOfFirstMinimum ==
    Parsing =>
        \A t \in URITexts :
            Cardinality(TagsOf(t)) >= 2 =>
                LET s == StreamOf(t)
                    a == TagAttrs(FirstMinTag(t))
                IN  /\ s.Bandwidth = MinBandwidth(t)
                    /\ s.AverageBandwidth = IntOrZero(Attr(a, "AVERAGE-BANDWIDTH"))
                    /\ s.Codecs = Attr(a, "CODECS")
                    /\ s.Resolution = Attr(a, "RESOLUTION")
                    /\ s.FrameRate = Attr(a, "FRAME-RATE")
                    /\ s.Subtitles = Attr(a, "SUBTITLES")

\* The non-empty AUDIO values of the tags of t among lines 0..n-1, in order.
RECURSIVE AudioOf(_, _)
AudioOf(t, n) ==
    IF n = 0 THEN <<>>
    ELSE IF (n - 1) \in TagsOf(t) /\ Attr(TagAttrs(n - 1), "AUDIO") # ""
    THEN Append(AudioOf(t, n - 1), Attr(TagAttrs(n - 1), "AUDIO"))
    ELSE AudioOf(t, n - 1)

\* C3: the Audio list of a stream is the sequence of the non-empty AUDIO
\* values of its contributing tags, the first tag included, in manifest order
\* and with duplicates kept, whatever the bandwidths.
C3_AudioOfEveryTag ==
    Parsing =>
        \A t \in URITexts : StreamOf(t).Audio = AudioOf(t, Len(lines))

\* C3 witness: a stream of three tags, two of them naming the same audio
\* group and the last one not lowering the bandwidth.
C3_Witness ==
    /\ Returned
    /\ \E t \in URITexts :
          /\ Cardinality(TagsOf(t)) = 3
          /\ Len(StreamOf(t).Audio) = 3
          /\ StreamOf(t).Audio[1] = StreamOf(t).Audio[3]
          /\ \E d \in TagsOf(t) : IntLess(StreamOf(t).Bandwidth, TagBandwidth(d))

\* The dispatched MEDIA tags, and the k-th of them in manifest order.
MediaTags == {d \in Range(dispatched) : MasterCase(lines[d + 1]) = "MEDIA"}

\* The elements of the index set S below n.
Before(S, n) == Cardinality({d \in S : d < n})

\* The tag that created the stream of t: the first of its tags.
CreatorOf(t) == CHOOSE d \in TagsOf(t) : \A e \in TagsOf(t) : d <= e

\* The tags that create an entity: every MEDIA tag and the first tag of each
\* URI text.
CreatingTags == MediaTags \cup {CreatorOf(t) : t \in URITexts}

\* The identifier of the entity that tag d created.
IDOf(d) ==
    IF d \in MediaTags
    THEN masterPlaylist.Medias[Before(MediaTags, d) + 1].ID
    ELSE StreamOf(URIText(d)).ID

\* C4: one counter numbers renditions and streams together: it counts the
\* MEDIA tags and the newly created streams, and the entity created by the
\* k-th creating tag of the manifest has identifier k - 1.
C4_SharedCounter ==
    Parsing =>
        /\ streamCounter = Cardinality(MediaTags) + Cardinality(URITexts)
        /\ streamCounter =
               Len(masterPlaylist.Medias) + Len(masterPlaylist.Streams)
        /\ \A d \in CreatingTags : IDOf(d) = Before(CreatingTags, d)
        /\ {IDOf(d) : d \in CreatingTags} = 0..(streamCounter - 1)

\* C4 witness: a stream, then a session key, then a rendition.
C4_Witness ==
    /\ Returned
    /\ Len(masterPlaylist.SessionKeys) = 1
    /\ Len(masterPlaylist.Streams) = 1
    /\ Len(masterPlaylist.Medias) = 1
    /\ masterPlaylist.Streams[1].ID = 0
    /\ masterPlaylist.Medias[1].ID = 1

\* The loop of parseMaster dispatches a STREAM-INF tag in this step.
StreamInfStep == MasterAt("STREAM-INF") /\ i' # i

\* The tag dispatched in this step has a URI line and a BANDWIDTH that is
\* absent or not a number.
NonNumericStep ==
    /\ StreamInfStep
    /\ i + 1 < Len(lines)
    /\ ~IsIntText(Attr(TagAttrs(i), "BANDWIDTH"))

\* The primary attributes of stream s are those of tag d, with bandwidth 0.
PrimaryOfTagAtZero(s, d) ==
    /\ s.Bandwidth = GoInt(0)
    /\ s.Codecs = Attr(TagAttrs(d), "CODECS")
    /\ s.Resolution = Attr(TagAttrs(d), "RESOLUTION")
    /\ s.FrameRate = Attr(TagAttrs(d), "FRAME-RATE")
    /\ s.Subtitles = Attr(TagAttrs(d), "SUBTITLES")

\* C8: parseMaster never aborts: it returns only after the last line, with
\* the playlist and no error; a tag whose BANDWIDTH is absent or non-numeric
\* is aggregated as a tag of bandwidth 0: the stream it creates has
\* bandwidth 0, and it overwrites the primary attributes of an existing
\* stream exactly when 0 is below the stored bandwidth.
C8_MasterNeverAborts ==
    /\ [](mode = "master" =>
            /\ pc = "loop" => ret.playlist = "none"
            /\ pc = "done" =>
                  /\ ret = [playlist |-> "master", err |-> ""]
                  /\ i >= Len(lines)
                  /\ \A k \in 0..(Len(lines) - 1) :
                        k \in Range(dispatched) \/ k \in Range(consumed))
    /\ [][NonNumericStep =>
            LET t     == lines[i + 2]
                after == masterPlaylist'.Streams[streamMap'[t]]
            IN  IF t \notin DOMAIN streamMap
                THEN PrimaryOfTagAtZero(after, i)
                ELSE IF IntLess(GoInt(0), StreamOf(t).Bandwidth)
                THEN PrimaryOfTagAtZero(after, i)
                ELSE [after EXCEPT !.Audio = <<>>]
                         = [StreamOf(t) EXCEPT !.Audio = <<>>]]_vars

\* C10: a STREAM-INF tag on the last line is dropped: no stream, no audio
\* group, no counter step, no error.  Every other dispatched STREAM-INF tag
\* changes or creates exactly the stream keyed by the text of the next line,
\* and that line is consumed as the URI line and never dispatched as a tag.
C10_DroppedOrKeyedByNextLine ==
    /\ [](Parsing =>
            /\ \A d \in StreamInfTags :
                  /\ URIText(d) \in DOMAIN streamMap
                  /\ (d + 1) \in Range(consumed)
                  /\ (d + 1) \notin Range(dispatched)
            /\ \A d \in DroppedTags : (d + 1) \notin Range(consumed)
            /\ Len(consumed) = Cardinality(StreamInfTags))
    /\ [][StreamInfStep =>
            IF i + 1 >= Len(lines)
            THEN /\ masterPlaylist' = masterPlaylist
                 /\ streamCounter' = streamCounter
                 /\ streamMap' = streamMap
                 /\ ret' = ret
                 /\ pc' = "loop"
                 /\ i' = i + 1
            ELSE /\ i' = i + 2
                 /\ lines[i + 2] \in DOMAIN streamMap'
                 /\ Len(masterPlaylist'.Streams) = Cardinality(DOMAIN streamMap')
                 /\ \A k \in 1..Len(masterPlaylist.Streams) :
                       k # streamMap'[lines[i + 2]]
                           => masterPlaylist'.Streams[k] = masterPlaylist.Streams[k]
                 /\ \A t \in DOMAIN streamMap : streamMap'[t] = streamMap[t]]_vars

\* C10 witness: a manifest of a tag, its URI line and a last tag that was
\* dropped.
C10_Witness ==
    /\ Returned
    /\ Len(lines) = 3
    /\ DroppedTags = {2}
    /\ StreamInfTags = {0}
    /\ Len(masterPlaylist.Streams) = 1
    /\ streamCounter = 1

(***************************************************************************)
(* Properties of parseMedia.                                               *)
(***************************************************************************)
\* The name of the numeric tag a line carries, "" for any other line.
NumericTag(line) ==
    IF HasPrefix(line, "#EXT-X-VERSION:") THEN "EXT-X-VERSION"
    ELSE IF HasPrefix(line, "#EXT-X-TARGETDURATION:") THEN "EXT-X-TARGETDURATION"
    ELSE IF HasPrefix(line, "#EXT-X-MEDIA-SEQUENCE:") THEN "EXT-X-MEDIA-SEQUENCE"
    ELSE IF HasPrefix(line, "#EXTINF:") THEN "EXTINF"
    ELSE ""

\* The text a numeric tag must carry a number in.
NumericText(line) ==
    IF NumericTag(line) = "EXTINF"
    THEN Cut(TrimPrefix(line, "#EXTINF:"), ",").before
    ELSE TrimPrefix(line, "#" \o NumericTag(line) \o ":")

\* A decimal integer text whose value an int holds.
FitsInt(text) ==
    /\ IsIntText(text)
    /\ ~IntLess(MaxInt64, IntValue(text))
    /\ ~IntLess(IntValue(text), MinInt64)

\* A line that is a hard parse failure: a numeric tag whose text is not a
\* number of its type.
Malformed(line) ==
    /\ NumericTag(line) # ""
    /\ IF NumericTag(line) = "EXTINF"
       THEN ~ParseFloat(NumericText(line)).ok
       ELSE ~FitsInt(NumericText(line))

LastDispatched == lines[dispatched[Len(dispatched)] + 1]

\* C7: parseMedia stops at the first dispatched line with a malformed number:
\* it returns no playlist and an error naming that tag, whatever came before
\* and whatever follows; without such a line it returns the playlist.
C7_MediaAbortsAtFirstMalformed ==
    mode = "media" =>
        /\ \A k \in 1..(Len(dispatched) - 1) : ~Malformed(lines[dispatched[k] + 1])
        /\ pc = "loop" =>
              /\ ret.playlist = "none"
              /\ \A k \in 1..Len(dispatched) : ~Malformed(lines[dispatched[k] + 1])
        /\ pc = "done" =>
              IF Len(dispatched) > 0 /\ Malformed(LastDispatched)
              THEN /\ ret.playlist = "nil"
                   /\ HasPrefix(ret.err, "invalid " \o NumericTag(LastDispatched))
                   /\ i = dispatched[Len(dispatched)]
              ELSE /\ ret = [playlist |-> "media", err |-> ""]
                   /\ i >= Len(lines)

\* C7 witness: the second of three lines is malformed; the first had already
\* set a field of the playlist, and nothing is returned.
C7_Witness ==
    /\ mode = "media"
    /\ pc = "done"
    /\ ret.playlist = "nil"
    /\ Len(lines) = 3
    /\ dispatched = <<0, 1>>
    /\ mediaPlaylist # ZeroMediaPlaylist

\* A dispatched EXTINF line with a valid duration.
SegmentTag(d) ==
    /\ MediaCase(lines[d + 1]) = "EXTINF"
    /\ ParseFloat(NumericText(lines[d + 1])).ok

\* The line after index d exists, is not empty and does not start with '#'.
FollowedByURI(d) ==
    /\ d + 1 < Len(lines)
    /\ lines[d + 2] # ""
    /\ CharAt(lines[d + 2], 1) # "#"

\* The index the loop reads after the k-th dispatched line.
NextRead(k) == IF k < Len(dispatched) THEN dispatched[k + 1] ELSE i

\* C9: every dispatched EXTINF line with a valid duration yields one Segment,
\* in line order.  A following non-empty, non-comment line is consumed as its
\* URI and not dispatched; otherwise the segment has no URI and the
\* following line is the next one dispatched.
C9_OneSegmentPerExtInf ==
    mode = "media" =>
        LET segTags == SelectSeq(dispatched, SegmentTag)
        IN  /\ Len(mediaPlaylist.Segments) = Len(segTags)
            /\ \A k \in 1..Len(segTags) :
                  LET d   == segTags[k]
                      seg == mediaPlaylist.Segments[k]
                  IN  /\ seg.Duration = ParseFloat(NumericText(lines[d + 1])).val
                      /\ IF FollowedByURI(d)
                         THEN /\ seg.URI = urlParse(lines[d + 2]).url
                              /\ (d + 1) \in Range(consumed)
                              /\ (d + 1) \notin Range(dispatched)
                         ELSE /\ seg.URI.nil
                              /\ (d + 1) \notin Range(consumed)
            /\ \A k \in 1..Len(dispatched) :
                  SegmentTag(dispatched[k]) =>
                      NextRead(k) = IF FollowedByURI(dispatched[k])
                                    THEN dispatched[k] + 2
                                    ELSE dispatched[k] + 1

\* C9 witness: two segments, the first with the URI of the line after it, the
\* second, from an EXTINF on the last line, without one.
C9_Witness ==
    /\ mode = "media"
    /\ pc = "done"
    /\ ret.playlist = "media"
    /\ Len(mediaPlaylist.Segments) = 2
    /\ ~mediaPlaylist.Segments[1].URI.nil
    /\ mediaPlaylist.Segments[2].URI.nil
    /\ consumed = <<1>>

(***************************************************************************)
(* Properties of MasterPlaylist.Sort, stated over a step that is a call of *)
(* Sort (the only step that advances sorts).                               *)
(***************************************************************************)
SortCall == sorts' = sorts + 1

\* The sort key of the claim: the average bandwidth when greater than zero,
\* the bandwidth otherwise.
ClaimedStreamKey(stream) ==
    IF ~stream.AverageBandwidth.neg /\ stream.AverageBandwidth.digits # "0"
    THEN stream.AverageBandwidth
    ELSE stream.Bandwidth

Occurrences(q, x) == Cardinality({k \in 1..Len(q) : q[k] = x})

IsPermutation(before, after) ==
    /\ Len(after) = Len(before)
    /\ \A x \in Range(before) \cup Range(after) :
          Occurrences(after, x) = Occurrences(before, x)

PositionIn(q, x) == CHOOSE k \in 1..Len(q) : q[k] = x

\* Elements of equal key keep their relative order from before to after.
StableStreams(before, after) ==
    \A j, k \in 1..Len(before) :
        (j < k /\ ClaimedStreamKey(before[j]) = ClaimedStreamKey(before[k]))
            => PositionIn(after, before[j]) < PositionIn(after, before[k])

StableMedias(before, after) ==
    \A j, k \in 1..Len(before) :
        (j < k /\ before[j].GroupID = before[k].GroupID)
            => PositionIn(after, before[j]) < PositionIn(after, before[k])

\* C5: Sort is stable for both lists (entities of equal sort bandwidth, or of
\* equal group identifier, keep their relative order), and a second Sort
\* leaves the order as the first one made it.
C5_SortStable ==
    [][SortCall =>
          /\ StableStreams(masterPlaylist.Streams, masterPlaylist'.Streams)
          /\ StableMedias(masterPlaylist.Medias, masterPlaylist'.Medias)
          /\ (sorts >= 1 => masterPlaylist' = masterPlaylist)]_vars

\* C6: Sort leaves a permutation of each list, the streams by non-decreasing
\* sort bandwidth and the renditions by non-decreasing GroupID; no entity is
\* added, removed or modified, and the session keys are untouched.
C6_SortedPermutation ==
    [][SortCall =>
          /\ IsPermutation(masterPlaylist.Streams, masterPlaylist'.Streams)
          /\ IsPermutation(masterPlaylist.Medias, masterPlaylist'.Medias)
          /\ masterPlaylist'.SessionKeys = masterPlaylist.SessionKeys
          /\ \A k \in 1..(Len(masterPlaylist'.Streams) - 1) :
                ~IntLess(ClaimedStreamKey(masterPlaylist'.Streams[k + 1]),
                         ClaimedStreamKey(masterPlaylist'.Streams[k]))
          /\ \A k \in 1..(Len(masterPlaylist'.Medias) - 1) :
                ~StrLess(masterPlaylist'.Medias[k + 1].GroupID,
                         masterPlaylist'.Medias[k].GroupID)]_vars

\* C6 witness: Sort has run on maxInsertion + 1 streams and renditions and
\* moved an averaged stream of higher peak bandwidth before a plain one.
C6_Witness ==
    /\ sorts = 1
    /\ Len(masterPlaylist.Streams) = SortLen
    /\ Len(masterPlaylist.Medias) = SortLen
    /\ \E j, k \in 1..SortLen :
          /\ j < k
          /\ masterPlaylist.Streams[j].AverageBandwidth = GoInt(1)
          /\ masterPlaylist.Streams[j].Bandwidth = GoInt(3)
          /\ masterPlaylist.Streams[k].Bandwidth = GoInt(2)
          /\ masterPlaylist.Streams[j].ID > masterPlaylist.Streams[k].ID

(***************************************************************************)
(* Properties of ResolveURIs.                                              *)
(***************************************************************************)
\* This step is a ResolveURIs call, and the base it was called with.
ResolveCall == resolves' # resolves

CallBase == urlParse(resolves'[Len(resolves')]).url

\* Two records agree on every field but URI.
SameButURI(x, y) ==
    /\ DOMAIN x = DOMAIN y
    /\ \A f \in DOMAIN x \ {"URI"} : x[f] = y[f]

\* A URI after the call: absent stays absent, present is resolved.
Resolved(before, after, base) ==
    IF before.nil THEN after = NilURL
    ELSE after = ResolveReference(base, before)

\* A list after the call: same length and order, only the URIs replaced.
ResolvedList(before, after, base) ==
    /\ Len(after) = Len(before)
    /\ \A k \in 1..Len(before) :
          /\ SameButURI(before[k], after[k])
          /\ Resolved(before[k].URI, after[k].URI, base)

\* C11: a ResolveURIs call replaces every present URI (segments, keys, the
\* map; streams, renditions, session keys) by its resolution against the
\* base, leaves every absent URI absent, and changes nothing else: number and
\* order of the entities and every other field stay as they were.
C11_ResolveFrame ==
    [][ResolveCall =>
          /\ ResolvedList(masterPlaylist.Streams, masterPlaylist'.Streams, CallBase)
          /\ ResolvedList(masterPlaylist.Medias, masterPlaylist'.Medias, CallBase)
          /\ ResolvedList(masterPlaylist.SessionKeys,
                          masterPlaylist'.SessionKeys, CallBase)
          /\ ResolvedList(mediaPlaylist.Segments, mediaPlaylist'.Segments, CallBase)
          /\ ResolvedList(mediaPlaylist.Keys, mediaPlaylist'.Keys, CallBase)
          /\ Resolved(mediaPlaylist.Map, mediaPlaylist'.Map, CallBase)
          /\ \A f \in DOMAIN mediaPlaylist \ {"Segments", "Keys", "Map"} :
                mediaPlaylist'[f] = mediaPlaylist[f]
          /\ DOMAIN masterPlaylist' = DOMAIN masterPlaylist
          /\ DOMAIN mediaPlaylist' = DOMAIN mediaPlaylist
          /\ UNCHANGED <<streamCounter, streamMap, ret, lines>>]_vars

\* C11 witness: one call on a media playlist resolved the segment's "../up.ts"
\* against the base, left the key without URI as it was, and kept the opaque
\* data URI of the map.
C11_Witness ==
    /\ mode = "media"
    /\ resolves = <<"http://h/d/e?q#f">>
    /\ Len(mediaPlaylist.Segments) = 1
    /\ mediaPlaylist.Segments[1].URI.Host = "h"
    /\ mediaPlaylist.Segments[1].URI.Path = "/up.ts"
    /\ Len(mediaPlaylist.Keys) = 1
    /\ mediaPlaylist.Keys[1].URI.nil
    /\ mediaPlaylist.Keys[1].Method = "AES-128"
    /\ mediaPlaylist.Map.Scheme = "data"

\* The URIs of a pair of playlists, entity by entity.
URIsOf(master, media) ==
    [k \in 1..Len(master.Streams) |-> master.Streams[k].URI]
    \o [k \in 1..Len(master.Medias) |-> master.Medias[k].URI]
    \o [k \in 1..Len(master.SessionKeys) |-> master.SessionKeys[k].URI]
    \o [k \in 1..Len(media.Segments) |-> media.Segments[k].URI]
    \o [k \in 1..Len(media.Keys) |-> media.Keys[k].URI]
    \o <<media.Map>>

\* A present URI with a scheme.
Absolute(uri) == ~uri.nil /\ uri.Scheme # ""

\* The first ResolveURIs call was made, with an absolute base.
ResolvedAbsolutely ==
    Len(resolves) >= 1 /\ Absolute(urlParse(resolves[1]).url)

\* No element of a path is "." or "..".
RECURSIVE NoDotSegments(_)
NoDotSegments(path) ==
    LET cut == Cut(path, "/")
    IN  /\ cut.before \notin {".", ".."}
        /\ cut.found => NoDotSegments(cut.after)

\* C12 as claimed: a ResolveURIs call, with any base, returns every
\* already-absolute URI unchanged, and after a first call with an absolute
\* base a further call changes no URI.
C12_AbsoluteUnchanged ==
    [][ResolveCall =>
          LET before == URIsOf(masterPlaylist, mediaPlaylist)
              after  == URIsOf(masterPlaylist', mediaPlaylist')
          IN  /\ \A k \in 1..Len(before) :
                    Absolute(before[k]) => after[k] = before[k]
              /\ ResolvedAbsolutely => after = before]_vars

\* C12 amended: a ResolveURIs call changes no field of an already-absolute
\* URI but its path, and the path only when it has a dot segment; after a
\* first call with an absolute base a further call, with any base, changes
\* no URI.
C12_AbsoluteUpToDotSegments ==
    [][ResolveCall =>
          LET before == URIsOf(masterPlaylist, mediaPlaylist)
              after  == URIsOf(masterPlaylist', mediaPlaylist')
          IN  /\ \A k \in 1..Len(before) :
                    Absolute(before[k]) =>
                        /\ [after[k] EXCEPT !.Path = ""]
                               = [before[k] EXCEPT !.Path = ""]
                        /\ NoDotSegments(before[k].Path)
                               => after[k] = before[k]
              /\ ResolvedAbsolutely => after = before]_vars

\* C12 witness: two calls on a master playlist, the first with an absolute
\* base; the stream's relative URI was resolved by the first call, the
\* rendition's absolute URI lost its dot segment, and the second base left no
\* trace.
C12_Witness ==
    /\ mode = "master"
    /\ resolves = <<"http://h/d/e?q#f", "/r/s">>
    /\ Len(masterPlaylist.Streams) = 1
    /\ masterPlaylist.Streams[1].URI.Host = "h"
    /\ masterPlaylist.Streams[1].URI.Path = "/up.ts"
    /\ Len(masterPlaylist.Medias) = 1
    /\ masterPlaylist.Medias[1].URI.Host = "o"
    /\ masterPlaylist.Medias[1].URI.Path = "/b"

(***************************************************************************)
(* Properties of DecodeData.                                               *)
(***************************************************************************)
\* This step is a DecodeData call; the key it was called on, its result.
DecodeCall == decoded' # decoded

DecodedKey == ReturnedKeys[decoded'[Len(decoded')].key]

DecodeResult == decoded'[Len(decoded')].out

\* An early failure: the given error, and no decoding attempted.
FailsWith(out, text) == out.err = text /\ out.data = <<>> /\ out.at = 0 - 1

\* A dispatched line that is a key tag of the playlist kind being parsed.
IsKeyTag(d) ==
    IF mode = "media" THEN MediaCase(lines[d + 1]) = "KEY"
    ELSE MasterCase(lines[d + 1]) = "SESSION-KEY"

\* The text of the URI attribute of the tag the decoded key was parsed from:
\* the k-th key of a playlist is that of the k-th dispatched key tag.
DecodedKeyText ==
    LET tags == SelectSeq(dispatched, IsKeyTag)
        line == lines[tags[decoded'[Len(decoded')].key] + 1]
    IN  Attr(parseAttributes(line, IF mode = "media" THEN "#EXT-X-KEY:"
                                   ELSE "#EXT-X-SESSION-KEY:"), "URI")

\* The scheme-specific part of a URI text: what follows the colon of the
\* scheme, up to the fragment.
SchemeSpecificPart(text) == Cut(Cut(text, "#").before, ":").after

\* C13: DecodeData fails for a key without URI; else for a scheme other than
\* data; else, as malformed, when the scheme-specific part of the URI has no
\* comma; else, as unsupported, when the text before the first comma lacks
\* ";base64"; only otherwise does it decode the text after the first comma
\* as standard base64 and return the bytes or the decode failure.  The key,
\* and the playlist holding it, are not modified.
C13_DecodeDataOfSchemeSpecificPart ==
    [][DecodeCall =>
          \A part \in {SchemeSpecificPart(DecodedKeyText)} :
          \A cut \in {Cut(part, ",")} :
             LET uri == DecodedKey.URI
                 out == DecodeResult
             IN  /\ IF uri.nil THEN FailsWith(out, "URI is nil")
                    ELSE IF uri.Scheme # "data"
                    THEN FailsWith(out, "URI is not a data URI")
                    ELSE IF ~cut.found
                    THEN FailsWith(out,
                                   "invalid data URI: missing comma separator")
                    ELSE IF ~Contains(cut.before, ";base64")
                    THEN FailsWith(out,
                                   "data URI does not contain base64 indicator")
                    ELSE /\ out = DecodeString(cut.after)
                         /\ out.err \in {"", "illegal base64 data at input byte"}
                         /\ out.err = "" <=> out.at = 0 - 1
                 /\ UNCHANGED <<masterPlaylist, mediaPlaylist, ret>>]_vars

(***************************************************************************)
(* Properties of the key lists.                                            *)
(***************************************************************************)
\* The key list of the playlist being built.
KeyList ==
    IF mode = "media" THEN mediaPlaylist.Keys ELSE masterPlaylist.SessionKeys

\* C14: the key list has exactly one record per dispatched key tag
\* (#EXT-X-KEY: in a media playlist, #EXT-X-SESSION-KEY: in a master
\* playlist), in the order of the tags, each holding the attributes of its
\* tag; no record is replaced or dropped, also when two tags are identical.
C14_OneKeyPerTag ==
    LET tags == SelectSeq(dispatched, IsKeyTag)
    IN  /\ Len(KeyList) = Len(tags)
        /\ \A k \in 1..Len(tags) : KeyList[k] = parseKey(lines[tags[k] + 1])
        /\ mode = "media" => masterPlaylist.SessionKeys = <<>>
        /\ mode = "master" => mediaPlaylist.Keys = <<>>

\* C14 witness: parseMedia returned two equal key records for two identical
\* tags.
C14_Witness ==
    /\ mode = "media"
    /\ pc = "done"
    /\ Len(lines) = 2
    /\ lines[1] = lines[2]
    /\ Len(mediaPlaylist.Keys) = 2
    /\ mediaPlaylist.Keys[1] = mediaPlaylist.Keys[2]
    /\ mediaPlaylist.Keys[1].URI.Scheme = "data"

(***************************************************************************)
(* Properties of the initialization map.                                   *)
(***************************************************************************)
\* The URI a MAP tag carries: NilURL when the attribute is missing, empty or
\* not well formed, in which case the tag sets no reference.
MapURI(d) ==
    LET text == Attr(parseAttributes(lines[d + 1], "#EXT-X-MAP:"), "URI")
    IN  IF text = "" \/ urlParse(text).err THEN NilURL ELSE urlParse(text).url

\* The dispatched MAP tags that carry a URI.
MapTags ==
    {d \in Range(dispatched) :
        MediaCase(lines[d + 1]) = "MAP" /\ ~MapURI(d).nil}

\* C15: the initialization map is a single reference: while and after
\* parseMedia runs it is the URI of the last dispatched #EXT-X-MAP: tag that
\* carries one (the earlier ones are not retained), and absent when there
\* was none.
C15_LastMapWins ==
    mode = "media" =>
        IF MapTags = {} THEN mediaPlaylist.Map = NilURL
        ELSE LET last == CHOOSE d \in MapTags : \A e \in MapTags : e <= d
             IN  mediaPlaylist.Map = MapURI(last)

\* C15 witness: two map tags with different URIs; parseMedia returned the
\* playlist with the second.
C15_Witness ==
    /\ mode = "media"
    /\ pc = "done"
    /\ ret.playlist = "media"
    /\ Cardinality(MapTags) = 2
    /\ MapURI(0).Path = "a.mp4"
    /\ mediaPlaylist.Map.Path = "b.mp4"

(***************************************************************************)
(* Properties of successive parse calls.                                   *)
(***************************************************************************)
\* Two calls of the same parser on the same lines.
SameInput(a, b) == a.mode = b.mode /\ a.lines = b.lines

\* The identifiers of the entities of a master playlist.
IDsOf(master) ==
    {master.Streams[k].ID : k \in 1..Len(master.Streams)}
        \cup {master.Medias[k].ID : k \in 1..Len(master.Medias)}

\* C16: nothing crosses a parse call boundary: two calls of a parser on the
\* same lines return equal results, whatever was parsed before or between
\* them; every call starts with counter 0, an empty seen-map and empty
\* playlists, and the identifiers of every returned master playlist start at
\* 0.
C16_PureParse ==
    /\ \A a, b \in 1..Len(calls) :
          SameInput(calls[a], calls[b]) => calls[a] = calls[b]
    /\ pc = "done" =>
          \A a \in 1..Len(calls) :
              SameInput(calls[a], Returns) => calls[a] = Returns
    /\ (pc = "loop" /\ i = 0) =>
          /\ streamCounter = 0
          /\ streamMap = <<>>
          /\ masterPlaylist = ZeroMasterPlaylist
          /\ mediaPlaylist = ZeroMediaPlaylist
    /\ \A a \in 1..Len(calls) :
          IDsOf(calls[a].master) # {} => 0 \in IDsOf(calls[a].master)

\* C16 witness: parseMaster returned the playlist of a rendition and a
\* stream for the second time, with a parseMedia call that failed in
\* between.
C16_Witness ==
    /\ Len(calls) = 2
    /\ pc = "done"
    /\ SameInput(calls[1], Returns)
    /\ calls[1].master = masterPlaylist
    /\ IDsOf(masterPlaylist) = {0, 1}
    /\ calls[2].mode = "media"
    /\ calls[2].ret.playlist = "nil"

(***************************************************************************)
(* Properties of the loops of parseMaster and parseMedia.                  *)
(***************************************************************************)
\* No index occurs twice in a history of reads.
ReadOnce(reads) ==
    \A a, b \in 1..Len(reads) : a # b => reads[a] # reads[b]

\* Every index read so far is an index of lines.
ReadsInRange ==
    \A k \in Range(dispatched) \cup Range(lookahead) : k \in 0..(Len(lines) - 1)

\* What holds of the reads at every point of a call.
LoopReads ==
    /\ i \in 0..Len(lines)
    /\ ReadsInRange
    /\ ReadOnce(dispatched)
    /\ ReadOnce(lookahead)

\* An iteration that is followed by another evaluation of the loop condition
\* has advanced the index by 1 or by 2.
LoopAdvance == pc' = "loop" => i' - i \in {1, 2}

\* C17: parseMaster and parseMedia terminate on every finite line sequence:
\* every call returns; every iteration advances the line index by 1 or 2; every
\* line is read at most once as a tag and at most once as the line after a
\* tag; and every index read lies in 0..len(lines)-1, also when the last line
\* is an #EXTINF: or #EXT-X-STREAM-INF: tag.
C17_Terminates ==
    /\ []LoopReads
    /\ [][LoopAdvance]_vars
    /\ <>(pc = "done")

\* C17 witness: parseMedia has returned from lines whose last one is an
\* #EXTINF: tag with no line after it, having read a comment line first as the
\* line after a tag and then as a tag.
C17_Witness ==
    /\ mode = "media"
    /\ pc = "done"
    /\ ret.playlist = "media"
    /\ Len(lines) = 3
    /\ HasPrefix(lines[3], "#EXTINF:")
    /\ HasPrefix(lines[1], "#EXTINF:")
    /\ lookahead = <<1, 2>>
    /\ dispatched = <<0, 1, 2>>
    /\ consumed = <<>>

(***************************************************************************)
(* What an iteration of parseMaster leaves alone.                          *)
(***************************************************************************)
\* The loop reads a STREAM-INF tag that has a following line.
AtStreamInf ==
    /\ i < Len(lines)
    /\ MasterCase(lines[i + 1]) = "STREAM-INF"
    /\ i + 1 < Len(lines)

\* The tag read is a repeat: a stream is stored for its URI line.
AtRepeatTag == AtStreamInf /\ lines[i + 2] \in DOMAIN streamMap

\* List after holds list before as its first entries, unchanged.
Extends(after, before) ==
    /\ Len(after) >= Len(before)
    /\ \A k \in 1..Len(before) : after[k] = before[k]

\* Playlist after is playlist before but for one more entry in the Audio list
\* of stream k.
OneMoreAudio(after, before, k) ==
    /\ Len(after.Streams[k].Audio) = Len(before.Streams[k].Audio) + 1
    /\ Extends(after.Streams[k].Audio, before.Streams[k].Audio)
    /\ after = [before EXCEPT
                   !.Streams[k].Audio = after.Streams[k].Audio]

\* The bandwidth of tag d as the parser reads it.
ReadBandwidth(d) == Atoi(Attr(TagAttrs(d), "BANDWIDTH")).n

\* What one iteration of the loop may change.
StreamFrame ==
    LET before == masterPlaylist
        after  == masterPlaylist'
    IN  /\ Len(after.Streams) >= Len(before.Streams)
        /\ \A k \in 1..Len(before.Streams) :
              /\ after.Streams[k].ID = before.Streams[k].ID
              /\ after.Streams[k].URI = before.Streams[k].URI
              /\ after.Streams[k] # before.Streams[k] =>
                    AtRepeatTag /\ streamMap[lines[i + 2]] = k
        /\ \A t \in DOMAIN streamMap :
              t \in DOMAIN streamMap' /\ streamMap'[t] = streamMap[t]
        /\ Extends(after.Medias, before.Medias)
        /\ Extends(after.SessionKeys, before.SessionKeys)
        /\ (AtRepeatTag /\ ~IntLess(ReadBandwidth(i), StreamOf(lines[i + 2]).Bandwidth)) =>
              /\ streamMap' = streamMap
              /\ streamCounter' = streamCounter
              /\ \/ after = before
                 \/ OneMoreAudio(after, before, streamMap[lines[i + 2]])

\* C18: during parseMaster a stream keeps its ID, its URI and its position
\* once created; a repeat STREAM-INF tag whose bandwidth is not strictly lower
\* than the stored one changes nothing in the playlist but, possibly, one
\* more entry at the end of that stream's Audio list; and no iteration
\* changes a stream other than the one stored for the tag's own URI line, nor
\* any rendition or session key already in the playlist.
C18_StreamFrame ==
    [][(mode = "master" /\ pc = "loop" /\ sorts = 0) => StreamFrame]_vars

\* C18 witness: the second tag of a URI, of the bandwidth stored, has added
\* its audio group and nothing else, with a rendition and a second stream in
\* the playlist.
C18_Witness ==
    /\ mode = "master"
    /\ Len(contrib) = 3
    /\ contrib[1].created /\ contrib[2].created /\ ~contrib[3].created
    /\ contrib[3].pos = 1
    /\ i = contrib[3].uri + 1
    /\ ReadBandwidth(contrib[3].tag) = masterPlaylist.Streams[1].Bandwidth
    /\ ReadBandwidth(contrib[3].tag) = GoInt(2)
    /\ masterPlaylist.Streams[1].Audio = <<"a", "a">>
    /\ masterPlaylist.Streams[1].Codecs = "x,y"
    /\ Len(masterPlaylist.Streams) = 2

====
